---- MODULE Spec2Model ----
(***************************************************************************)
(* State-machine model of gocker (z1z0v1c/gclone): the image puller        *)
(* (internal/gocker/image, Client.Pull and its stages) and the two-phase   *)
(* container runner (internal/gocker/container, internal/gocker/cmd),      *)
(* with the HTTP client they use (pkg/http), and of the static file        *)
(* server ginx (internal/ginx/server).                                     *)
(*                                                                         *)
(* Strings that the code inspects character by character (paths, tar       *)
(* entry names) are sequences of one-character strings:                    *)
(*   "/i/r"  is  <<"/", "i", "/", "r">>.                                   *)
(***************************************************************************)
EXTENDS Integers, Sequences, FiniteSets, TLC

(***************************************************************************)
(* Bounds of the model.                                                    *)
(***************************************************************************)
MaxLayers == 2
MaxIndex == 2
MaxNameParts == 2
MaxEntries == 2
MaxDepth == 2

(***************************************************************************)
(* path/filepath and strings, on sequences of characters.                  *)
(***************************************************************************)
DotDot == <<".", ".">>

RECURSIVE SplitAcc(_, _, _, _)
SplitAcc(s, i, cur, acc) ==
    IF i > Len(s) THEN Append(acc, cur)
    ELSE IF s[i] = "/" THEN SplitAcc(s, i + 1, <<>>, Append(acc, cur))
    ELSE SplitAcc(s, i + 1, Append(cur, s[i]), acc)

\* The "/"-separated elements of s, empty elements included.
Components(s) == SplitAcc(s, 1, <<>>, <<>>)

RECURSIVE JoinSlash(_)
JoinSlash(comps) ==
    IF comps = <<>> THEN <<>>
    ELSE IF Len(comps) = 1 THEN comps[1]
    ELSE comps[1] \o <<"/">> \o JoinSlash(Tail(comps))

\* The element loop of filepath.Clean: drops empty and "." elements, and
\* lets ".." remove the element before it (at the root, ".." is dropped).
RECURSIVE CleanComps(_, _, _, _)
CleanComps(comps, i, rooted, out) ==
    IF i > Len(comps) THEN out
    ELSE LET c == comps[i] IN
         IF c = <<>> \/ c = <<".">> THEN CleanComps(comps, i + 1, rooted, out)
         ELSE IF c = DotDot
              THEN IF Len(out) > 0 /\ out[Len(out)] # DotDot
                   THEN CleanComps(comps, i + 1, rooted, SubSeq(out, 1, Len(out) - 1))
                   ELSE IF rooted
                        THEN CleanComps(comps, i + 1, rooted, out)
                        ELSE CleanComps(comps, i + 1, rooted, Append(out, c))
              ELSE CleanComps(comps, i + 1, rooted, Append(out, c))

\* filepath.Clean
Clean(s) ==
    IF s = <<>> THEN <<".">>
    ELSE LET rooted == s[1] = "/"
             out == CleanComps(Components(s), 1, rooted, <<>>)
         IN IF rooted THEN <<"/">> \o JoinSlash(out)
            ELSE IF out = <<>> THEN <<".">> ELSE JoinSlash(out)

\* filepath.Join of two elements: empty elements are ignored, the rest is
\* joined with "/" and cleaned.
Join(a, b) ==
    IF a = <<>> /\ b = <<>> THEN <<>>
    ELSE IF a = <<>> THEN Clean(b)
    ELSE IF b = <<>> THEN Clean(a)
    ELSE Clean(a \o <<"/">> \o b)

\* strings.HasPrefix
HasPrefix(s, prefix) ==
    Len(s) >= Len(prefix) /\ SubSeq(s, 1, Len(prefix)) = prefix

\* The elements of a cleaned path (no empty elements).
Elems(p) == SelectSeq(Components(p), LAMBDA c : c # <<>>)

\* filepath.Dir of a cleaned absolute path.
Dir(p) ==
    LET e == Elems(p)
    IN IF Len(e) <= 1 THEN <<"/">>
       ELSE <<"/">> \o JoinSlash(SubSeq(e, 1, Len(e) - 1))

\* p is root itself or lies below it, element by element.
IsUnder(p, root) ==
    LET e == Elems(p)
        r == Elems(root)
    IN Len(e) >= Len(r) /\ SubSeq(e, 1, Len(r)) = r

(***************************************************************************)
(* The file system the os package acts on.  A file system is a record      *)
(*   node : cleaned absolute path -> [kind |-> "dir"]                      *)
(*                                 | [kind |-> "file", ino |-> i]          *)
(*                                 | [kind |-> "symlink", to |-> linkname] *)
(*   data : inode -> content                                               *)
(* "/" is always a directory.  Hard links share the inode.                  *)
(***************************************************************************)
Root == <<"/">>

Child(dir, e) == IF dir = Root THEN Root \o e ELSE dir \o <<"/">> \o e

Exists(fs, p) == p = Root \/ p \in DOMAIN fs.node

Kind(fs, p) == IF p = Root THEN "dir" ELSE fs.node[p].kind

\* The elements a symlink's target contributes to a path walk.
LinkElems(to) == SelectSeq(Components(to), LAMBDA c : c # <<>> /\ c # <<".">>)

\* Depth of nested symlink resolution after which the walk gives up (ELOOP).
MaxSymlinks == 3

\* Path resolution of the kernel: walks elems from directory cur, following
\* symlinks (the last element's only when follow).  Returns the path of the
\* last element and whether something exists there, or an error.
RECURSIVE WalkFrom(_, _, _, _, _, _)
WalkFrom(fs, cur, elems, i, follow, depth) ==
    IF i > Len(elems) THEN [err |-> "", path |-> cur, exists |-> TRUE]
    ELSE IF Kind(fs, cur) # "dir" THEN [err |-> "ENOTDIR", path |-> cur, exists |-> FALSE]
    ELSE LET e == elems[i]
             cand == Child(cur, e)
             last == i = Len(elems)
         IN IF e = DotDot THEN WalkFrom(fs, Dir(cur), elems, i + 1, follow, depth)
            ELSE IF ~Exists(fs, cand)
                 THEN IF last THEN [err |-> "", path |-> cand, exists |-> FALSE]
                      ELSE [err |-> "ENOENT", path |-> cand, exists |-> FALSE]
            ELSE IF Kind(fs, cand) = "symlink" /\ (~last \/ follow)
                 THEN LET to == fs.node[cand].to
                          rest == SubSeq(elems, i + 1, Len(elems))
                      IN IF depth = 0 THEN [err |-> "ELOOP", path |-> cand, exists |-> FALSE]
                         ELSE IF to = <<>> THEN [err |-> "ENOENT", path |-> cand, exists |-> FALSE]
                         ELSE IF LinkElems(to) \o rest = <<>>
                              THEN [err |-> "", path |-> Root, exists |-> TRUE]
                         ELSE WalkFrom(fs, IF to[1] = "/" THEN Root ELSE cur,
                                       LinkElems(to) \o rest, 1, follow, depth - 1)
            ELSE WalkFrom(fs, cand, elems, i + 1, follow, depth)

Walk(fs, p, follow) == WalkFrom(fs, Root, Elems(p), 1, follow, MaxSymlinks)

PutNode(fs, p, n) ==
    [fs EXCEPT !.node = [q \in DOMAIN fs.node \cup {p} |-> IF q = p THEN n ELSE fs.node[q]]]

PutData(fs, i, d) ==
    [fs EXCEPT !.data = [j \in DOMAIN fs.data \cup {i} |-> IF j = i THEN d ELSE fs.data[j]]]

\* A new inode for a file created at p: <<p, k>> with the least unused k.
FreshIno(fs, p) ==
    LET free == {k \in 0..Cardinality(DOMAIN fs.data) : <<p, k>> \notin DOMAIN fs.data}
    IN <<p, CHOOSE k \in free : \A j \in free : k <= j>>

\* os.MkdirAll: nothing to do when p is a directory, an error when p is
\* something else; otherwise the parent is made first and then p itself.
RECURSIVE MkdirAll(_, _)
MkdirAll(fs, p) ==
    LET st == Walk(fs, p, TRUE)
    IN IF st.err = "" /\ st.exists
       THEN IF Kind(fs, st.path) = "dir" THEN [fs |-> fs, err |-> ""]
            ELSE [fs |-> fs, err |-> "ENOTDIR"]
       ELSE LET up == IF p = Root THEN [fs |-> fs, err |-> ""] ELSE MkdirAll(fs, Dir(p))
            IN IF up.err # "" THEN up
               ELSE LET w == Walk(up.fs, p, FALSE)
                    IN IF w.err # "" THEN [fs |-> up.fs, err |-> w.err]
                       ELSE IF w.exists
                            THEN IF Kind(up.fs, w.path) = "dir" THEN [fs |-> up.fs, err |-> ""]
                                 ELSE [fs |-> up.fs, err |-> "EEXIST"]
                       ELSE [fs |-> PutNode(up.fs, w.path, [kind |-> "dir"]), err |-> ""]

\* io.Copy into a file opened at offset 0 without O_TRUNC: the body
\* replaces the first Len(body) bytes and what lies beyond them stays.
Overwrite(old, body) ==
    IF Len(body) >= Len(old) THEN body
    ELSE body \o SubSeq(old, Len(body) + 1, Len(old))

\* os.OpenFile(p, O_CREATE|O_RDWR, mode) followed by io.Copy(file, body).
OpenFileAndCopy(fs, p, body) ==
    LET w == Walk(fs, p, TRUE)
    IN IF w.err # "" THEN [fs |-> fs, err |-> w.err]
       ELSE IF w.exists
            THEN IF Kind(fs, w.path) = "file"
                 THEN LET i == fs.node[w.path].ino
                      IN [fs |-> PutData(fs, i, Overwrite(fs.data[i], body)), err |-> ""]
                 ELSE [fs |-> fs, err |-> "EISDIR"]
       ELSE LET i == FreshIno(fs, w.path)
            IN [fs |-> PutData(PutNode(fs, w.path, [kind |-> "file", ino |-> i]), i, body),
                err |-> ""]

\* os.WriteFile(p, data, mode): O_WRONLY|O_CREATE|O_TRUNC, then one write.
WriteFile(fs, p, data) ==
    LET w == Walk(fs, p, TRUE)
    IN IF w.err # "" THEN [fs |-> fs, err |-> w.err]
       ELSE IF w.exists
            THEN IF Kind(fs, w.path) = "file"
                 THEN [fs |-> PutData(fs, fs.node[w.path].ino, data), err |-> ""]
                 ELSE [fs |-> fs, err |-> "EISDIR"]
       ELSE LET i == FreshIno(fs, w.path)
            IN [fs |-> PutData(PutNode(fs, w.path, [kind |-> "file", ino |-> i]), i, data),
                err |-> ""]

\* os.Symlink(linkname, p)
Symlink(fs, linkname, p) ==
    LET w == Walk(fs, p, FALSE)
    IN IF w.err # "" THEN [fs |-> fs, err |-> w.err]
       ELSE IF w.exists THEN [fs |-> fs, err |-> "EEXIST"]
       ELSE [fs |-> PutNode(fs, w.path, [kind |-> "symlink", to |-> linkname]), err |-> ""]

\* os.Link(old, new)
Link(fs, old, new) ==
    LET o == Walk(fs, old, FALSE)
        n == Walk(fs, new, FALSE)
    IN IF o.err # "" THEN [fs |-> fs, err |-> o.err]
       ELSE IF ~o.exists THEN [fs |-> fs, err |-> "ENOENT"]
       ELSE IF Kind(fs, o.path) = "dir" THEN [fs |-> fs, err |-> "EPERM"]
       ELSE IF n.err # "" THEN [fs |-> fs, err |-> n.err]
       ELSE IF n.exists THEN [fs |-> fs, err |-> "EEXIST"]
       ELSE [fs |-> PutNode(fs, n.path, fs.node[o.path]), err |-> ""]

\* os.IsExist
IsExist(err) == err = "EEXIST"

\* os.RemoveAll(p): removes p and everything below it; inodes that lose
\* their last name go with it.
RemoveAll(fs, p) ==
    LET keep == {q \in DOMAIN fs.node : ~IsUnder(q, p)}
        node == [q \in keep |-> fs.node[q]]
        used == {node[q].ino : q \in {r \in keep : node[r].kind = "file"}}
    IN [node |-> node, data |-> [i \in used |-> fs.data[i]]]

(***************************************************************************)
(* archive/tar headers and Client.extractLayer.                            *)
(***************************************************************************)
TypeReg == "0"
TypeLink == "1"
TypeSymlink == "2"
TypeChar == "3"
TypeDir == "5"

Header(typeflag, name, linkname, body) ==
    [Typeflag |-> typeflag, Name |-> name, Linkname |-> linkname, Body |-> body]

\* The path-traversal guard of extractLayer.
TargetAllowed(targetPath, imgRoot) == HasPrefix(targetPath, imgRoot)

\* What a case of the switch leaves when its os call returned r: the
\* error what, or the target path as made.
Made(r, what, targetPath) ==
    IF r.err # "" THEN [fs |-> r.fs, err |-> what, made |-> {}]
    ELSE [fs |-> r.fs, err |-> "", made |-> {targetPath}]

\* The same for os.Symlink and os.Link, whose "already exists" is ignored.
MadeLink(r, what, targetPath) ==
    IF r.err # "" /\ ~IsExist(r.err) THEN [fs |-> r.fs, err |-> what, made |-> {}]
    ELSE [fs |-> r.fs, err |-> "", made |-> IF r.err = "" THEN {targetPath} ELSE {}]

\* case tar.TypeReg, once the parent directory has been made with result d
ExtractReg(d, targetPath, body) ==
    IF d.err # "" THEN [fs |-> d.fs, err |-> "create parent directory", made |-> {}]
    ELSE Made(OpenFileAndCopy(d.fs, targetPath, body), "create file", targetPath)

\* The switch of extractLayer on header h with target path targetPath.
ExtractAt(fs, imgRoot, h, targetPath) ==
    IF ~TargetAllowed(targetPath, imgRoot) THEN [fs |-> fs, err |-> "", made |-> {}]
    ELSE CASE h.Typeflag = TypeDir ->
                Made(MkdirAll(fs, targetPath), "create directory", targetPath)
           [] h.Typeflag = TypeReg ->
                ExtractReg(MkdirAll(fs, Dir(targetPath)), targetPath, h.Body)
           [] h.Typeflag = TypeSymlink ->
                MadeLink(Symlink(fs, h.Linkname, targetPath), "create symlink", targetPath)
           [] h.Typeflag = TypeLink ->
                MadeLink(Link(fs, Join(imgRoot, h.Linkname), targetPath),
                         "create hard link", targetPath)
           [] OTHER -> [fs |-> fs, err |-> "", made |-> {}]

\* One iteration of the loop of extractLayer on header h.  made is the set
\* of target paths at which the iteration created something.
ExtractEntry(fs, imgRoot, h) == ExtractAt(fs, imgRoot, h, Join(imgRoot, h.Name))

\* A tar stream: its headers, and whether the stream breaks off after them
\* (tr.Next then returns an error instead of io.EOF).
TarStream(entries, broken) == [entries |-> entries, broken |-> broken]

\* Client.extractLayer: the loop over the headers of one layer.
RECURSIVE ExtractFrom(_, _, _, _, _)
\* The loop goes on after the iteration on header i left r.
ExtractNext(r, imgRoot, tr, i, made) ==
    IF r.err # "" THEN [fs |-> r.fs, err |-> r.err, made |-> made \cup r.made]
    ELSE ExtractFrom(r.fs, imgRoot, tr, i + 1, made \cup r.made)

ExtractFrom(fs, imgRoot, tr, i, made) ==
    IF i > Len(tr.entries)
    THEN [fs |-> fs, err |-> IF tr.broken THEN "read tar header" ELSE "", made |-> made]
    ELSE ExtractNext(ExtractEntry(fs, imgRoot, tr.entries[i]), imgRoot, tr, i, made)

extractLayer(fs, tr, imgRoot) == ExtractFrom(fs, imgRoot, tr, 1, {})

(***************************************************************************)
(* pkg/http: one exchange with a server is a raw outcome, which            *)
(* SendRequest turns into a response or an error.                          *)
(***************************************************************************)
StatusOK == 200
\* a status other than 200
StatusNotFound == StatusOK + 204

NoBody == [ctype |-> "", valid |-> FALSE, val |-> <<>>]

RawNetErr == [neterr |-> TRUE, status |-> 0, body |-> NoBody]

Raw(status, body) == [neterr |-> FALSE, status |-> status, body |-> body]

\* What a server may do with a request whose well-formed answers are bodies.
Outcomes(bodies) ==
    {RawNetErr, Raw(StatusNotFound, NoBody)} \cup {Raw(StatusOK, b) : b \in bodies}

\* Client.SendRequestWithContext / Client.SendRequest
SendRequest(raw) ==
    IF raw.neterr THEN [err |-> "transport", resp |-> NoBody]
    ELSE IF raw.status # StatusOK THEN [err |-> "status", resp |-> NoBody]
    ELSE [err |-> "", resp |-> raw.body]

\* Client.SendRequestAndDecode into v: v is left alone when the request or
\* the decoding fails.
SendRequestAndDecode(v, raw) ==
    LET r == SendRequest(raw)
    IN IF r.err # "" THEN [err |-> r.err, v |-> v]
       ELSE IF ~r.resp.valid THEN [err |-> "decode", v |-> v]
       ELSE [err |-> "", v |-> r.resp.val]

(***************************************************************************)
(* The registry: tokens, manifests, indexes, blobs.                        *)
(***************************************************************************)
Tokens == {"t1", "t2"}

\* The result of sha256.Sum256 + hex.EncodeToString, with the "sha256:"
\* prefix, for each blob the registry may send.
Blobs == {"blobA", "blobB", "blobT"}

Digest(data) ==
    CASE data = "blobA" -> "sha256:a"
      [] data = "blobB" -> "sha256:b"
      [] data = "blobT" -> "sha256:t"

LayerDigests == {"sha256:a", "sha256:b"}

\* gzip.NewReader + tar.NewReader on the bytes of a blob.
Gunzip(data) ==
    CASE data = "blobA" ->
           [err |-> "",
            tr |-> TarStream(<<Header(TypeDir, <<"a">>, <<>>, <<>>),
                               Header(TypeReg, <<"a", "/", "f">>, <<>>, <<1, 2>>)>>, FALSE)]
      [] data = "blobB" ->
           [err |-> "",
            tr |-> TarStream(<<Header(TypeLink, <<"g">>, <<"a", "/", "f">>, <<>>),
                               Header(TypeReg, <<"a", "/", "f">>, <<>>, <<3>>),
                               Header(TypeSymlink, <<"s">>, <<"a">>, <<>>),
                               Header(TypeReg, <<".", ".", "/", "r", "r">>, <<>>, <<9>>),
                               Header(TypeReg, <<"b">>, <<>>, <<5>>),
                               Header(TypeSymlink, <<"t">>, <<"/">>, <<>>),
                               Header(TypeLink, <<"t", "/", "y">>, <<"b">>, <<>>),
                               Header(TypeReg, <<"t", "/", "y">>, <<>>, <<8>>)>>, FALSE)]
      [] OTHER -> [err |-> "gzip: invalid header", tr |-> TarStream(<<>>, FALSE)]

\* What the blob endpoint may send for a layer digest: the layer, or other
\* bytes (a truncated or corrupted transfer).
LayerBodies(digest) == {b \in Blobs : Digest(b) = digest} \cup {"blobT"}

\* registry.Manifest, reduced to the layer digests and the config digest.
Manifest(layerDigests, configDigest) ==
    [Layers |-> layerDigests, Config |-> [Digest |-> configDigest]]

EmptyManifest == Manifest(<<>>, "")

RECURSIVE SeqsUpTo(_, _)
SeqsUpTo(S, n) ==
    IF n = 0 THEN {<<>>}
    ELSE LET shorter == SeqsUpTo(S, n - 1)
         IN shorter \cup {Append(q, x) : q \in {r \in shorter : Len(r) = n - 1}, x \in S}

Manifests == {Manifest(ls, "sha256:c") : ls \in SeqsUpTo(LayerDigests, MaxLayers)}

\* The manifests the registry stores under a digest.
ManifestDigests == {"sha256:m1", "sha256:m2"}

ManifestAt(digest) ==
    IF digest = "sha256:m1" THEN Manifest(<<"sha256:a", "sha256:b">>, "sha256:c")
    ELSE Manifest(<<"sha256:b">>, "sha256:c")

\* runtime.GOOS, runtime.GOARCH of the host.
GOOS == "linux"
GOARCH == "amd64"

Platforms ==
    {[OS |-> "linux", Architecture |-> "amd64"],
     [OS |-> "linux", Architecture |-> "arm64"],
     [OS |-> "windows", Architecture |-> "amd64"]}

IndexEntries == {[Digest |-> d, Platform |-> p] : d \in ManifestDigests, p \in Platforms}

Indexes == SeqsUpTo(IndexEntries, MaxIndex)

CtypeOCIIndex == "application/vnd.oci.image.index.v1+json"
CtypeManifestList == "application/vnd.docker.distribution.manifest.list.v2+json"
CtypeManifest == "application/vnd.docker.distribution.manifest.v2+json"

JSON(ctype, val) == [ctype |-> ctype, valid |-> TRUE, val |-> val]
BadJSON(ctype) == [ctype |-> ctype, valid |-> FALSE, val |-> <<>>]

TokenBodies == {JSON("application/json", [Token |-> t]) : t \in Tokens}
                 \cup {BadJSON("application/json")}

TagBodies ==
    {JSON(c, [Manifests |-> ix]) : c \in {CtypeOCIIndex, CtypeManifestList}, ix \in Indexes}
      \cup {JSON(CtypeManifest, m) : m \in Manifests}
      \cup {BadJSON(CtypeOCIIndex), BadJSON(CtypeManifest)}

DigestBodies(digest) == {JSON(CtypeManifest, ManifestAt(digest)), BadJSON(CtypeManifest)}

\* registry.ImageConfig, reduced to the fields the runner reads.
ImageConfig(env, workingDir, hostname) ==
    [Config |-> [Env |-> env, WorkingDir |-> workingDir, Hostname |-> hostname]]

ZeroConfig == ImageConfig(<<>>, "", "")

\* An entry "KEY=value" of an environment list is the pair <<KEY, value>>.
ImageConfigs ==
    {ImageConfig(<<>>, "", ""),
     ImageConfig(<<<<"PATH", "/bin">>>>, "/w", "h"),
     ImageConfig(<<<<"HOME", "/home/u">>, <<"IS_CHILD", "0">>>>, "", "")}

ConfigBodies == {JSON("application/octet-stream", c) : c \in ImageConfigs}
                  \cup {BadJSON("application/octet-stream")}

\* json.Decoder.Decode of a document written by MarshalIndent into an
\* ImageConfig: members that are absent leave the zero value.
DecodeConfig(doc) ==
    LET field(k, zero) == IF \E m \in doc : m[1] = k
                          THEN (CHOOSE m \in doc : m[1] = k)[2] ELSE zero
    IN ImageConfig(field("Env", <<>>), field("WorkingDir", ""), field("Hostname", ""))

\* json.MarshalIndent for a Config whose Env field is not written.
MarshalIndentWithoutEnv(c) ==
    {<<"WorkingDir", c.Config.WorkingDir>> : x \in IF c.Config.WorkingDir = "" THEN {} ELSE {1}}
      \cup {<<"Hostname", c.Config.Hostname>> : x \in IF c.Config.Hostname = "" THEN {} ELSE {1}}

\* json.MarshalIndent of an ImageConfig: the fields tagged omitempty are
\* left out when empty.  The document is the set of its members.
MarshalIndent(c) ==
    {<<"Env", c.Config.Env>> : x \in IF c.Config.Env = <<>> THEN {} ELSE {1}}
      \cup {<<"WorkingDir", c.Config.WorkingDir>> : x \in IF c.Config.WorkingDir = "" THEN {} ELSE {1}}
      \cup {<<"Hostname", c.Config.Hostname>> : x \in IF c.Config.Hostname = "" THEN {} ELSE {1}}

(***************************************************************************)
(* State.                                                                  *)
(***************************************************************************)
VARIABLES
    pc,         \* where Client.Pull stands
    ret,        \* what Pull returned: "none" while running, "nil", or an error
    token,      \* Client.token
    manifest,   \* Client.manifest
    digestSel,  \* the digest fetchManifest passes to fetchManifestByDigest
    layers,     \* Client.layers: digest -> bytes
    taskpc,     \* position of each download goroutine of downloadImage
    taskres,    \* what downloadLayer returned in each goroutine ("" while running)
    errChan,    \* the buffered channel of capacity 1
    cancelled,  \* ctx.Done() is closed
    closer,     \* the goroutine that waits for the WaitGroup and closes done
    dlret,      \* what downloadImage returned
    xi,         \* loop index of extractImage
    extracted,  \* the layers extracted so far, in order: manifest position and bytes
    fs,         \* the file system
    fs0,        \* the file system when Pull was called
    created,    \* target paths at which extraction created something
    config,     \* Client.config
    requests,   \* HTTP requests issued so far
    failures,   \* stages in which something failed so far
    indexInfo,  \* "none", or what the index received for the tag held for the
                \* host: "match" or "nomatch"
    tagIndex    \* the entries of the index received for the tag (<<>>: none)

VARIABLES
    store,      \* per HOME directory: the image's .config.json (missing, invalid
                \* or a JSON document)
    osArgs,     \* the arguments after "gocker run"
    procEnv,    \* environment of each gocker process
    rpc,        \* position of each gocker process
    cn,         \* the Container each process built
    rerr,       \* what cn.Run() returned in each process
    status,     \* exit status of each process (NotExited while it runs)
    target,     \* the target command each process ran
    sys,        \* the system calls each process made that succeeded, in order
    cgroups,    \* the gocker<pid> directories under /sys/fs/cgroup and their files
    diag,       \* the diagnostics each process wrote
    hostname    \* the hostname of each UTS namespace

VARIABLES
    xn,         \* number of tar headers extractLayer has read
    xerr        \* the error extractLayer returned ("" for none)

VARIABLES
    hpc,        \* where a caller of pkg/http's Client stands
    hraw,       \* what the server did with the caller's request
    hv,         \* the value the caller passed to SendRequestAndDecode
    hout        \* what the Client's method returned

VARIABLES
    srv,        \* the ginx Server
    docs,       \* the files and directories of the machine ginx runs on
    conn        \* the connection ginx handles: the request line and the answer

runVars == <<store, osArgs, procEnv, rpc, cn, rerr, status, target, sys, cgroups, diag,
             hostname>>

exVars == <<xn, xerr>>

httpVars == <<hpc, hraw, hv, hout>>

ginxVars == <<srv, docs, conn>>

pullVars == <<pc, ret, token, manifest, digestSel, layers, taskpc, taskres, errChan,
              cancelled, closer, dlret, xi, extracted, fs, fs0, created, config,
              requests, failures, indexInfo, tagIndex>>

vars == <<pullVars, runVars, exVars, httpVars, ginxVars>>

\* NewClient: imagePath, imageRoot ("rootfs") and configPath (".config.json")
imagePath == <<"/", "i">>
imageRoot == Join(imagePath, <<"r">>)
configPath == Join(imagePath, <<"c">>)

EmptyMap == [x \in {} |-> x]

EmptyFs == [node |-> EmptyMap, data |-> EmptyMap]

\* What an earlier pull of the same image name left behind.
OldFs ==
    LET ino == <<imageRoot \o <<"/", "o">>, 0>>
        cno == <<configPath, 0>>
    IN [node |-> (imagePath :> [kind |-> "dir"]) @@ (imageRoot :> [kind |-> "dir"])
                   @@ ((imageRoot \o <<"/", "o">>) :> [kind |-> "file", ino |-> ino])
                   @@ (configPath :> [kind |-> "file", ino |-> cno]),
        data |-> (ino :> <<7, 7, 7>>) @@ (cno :> MarshalIndent(ZeroConfig))]

\* The gocker processes of two invocations of "gocker run": the driver of
\* the first starts process 1, the driver of the second process
\* MaxDepth + 1, and a process d that spawns starts process d + 1.
Procs == 1..(MaxDepth + MaxDepth)

\* How many gocker processes of its invocation lie above process d, plus one.
Depth(d) == ((d - 1) % MaxDepth) + 1

NotExited == 0 - 1

Nil == [type |-> "nil"]

Homes == {"/root", "/home/u"}

\* What downloadImage returned: nothing yet, nil, or the error of a task.
NotReturned == [task |-> 0, err |-> "none"]
ReturnedNil == [task |-> 0, err |-> "nil"]

\* No target command was run.
NoTarget == [cmd |-> "", args |-> <<>>, env |-> <<>>, dir |-> "", outcome |-> [kind |-> "none"]]

MissingFile == [state |-> "missing", doc |-> {}]

\* The UTS namespaces: 0 is the host's, in which the driver starts process
\* 1; process d > 1 is started with CLONE_NEWUTS in a namespace of its own.
UtsNamespaces == {0} \cup (Procs \ {1})

UtsNamespace(d) == IF Depth(d) = 1 THEN 0 ELSE d

\* The hostname of the host before the run.
HostHostname == "host"

\* No "gocker run" is running.
RunIdle ==
    /\ store = [h \in Homes |-> MissingFile]
    /\ osArgs = <<>>
    /\ procEnv = [d \in Procs |-> <<>>]
    /\ rpc = [d \in Procs |-> "none"]
    /\ cn = [d \in Procs |-> <<>>]
    /\ rerr = [d \in Procs |-> Nil]
    /\ status = [d \in Procs |-> NotExited]
    /\ target = [d \in Procs |-> NoTarget]
    /\ sys = [d \in Procs |-> <<>>]
    /\ cgroups = EmptyMap
    /\ diag = [d \in Procs |-> <<>>]
    /\ hostname = [n \in UtsNamespaces |-> HostHostname]

\* No separate extraction is running.
ExtractIdle ==
    /\ xn = 0
    /\ xerr = ""

\* No pull is running.
HttpIdle ==
    /\ hpc = "idle"
    /\ hraw = <<>>
    /\ hv = <<>>
    /\ hout = <<>>

GinxIdle ==
    /\ srv = <<>>
    /\ docs = <<>>
    /\ conn = <<>>

PullIdle ==
    /\ pc = "idle"
    /\ ret = "none"
    /\ token = ""
    /\ manifest = EmptyManifest
    /\ digestSel = ""
    /\ layers = EmptyMap
    /\ taskpc = <<>>
    /\ taskres = <<>>
    /\ errChan = <<>>
    /\ cancelled = FALSE
    /\ closer = "idle"
    /\ dlret = NotReturned
    /\ xi = 0
    /\ extracted = <<>>
    /\ fs0 = fs
    /\ created = {}
    /\ config = ZeroConfig
    /\ requests = {}
    /\ failures = {}
    /\ indexInfo = "none"
    /\ tagIndex = <<>>

Bearer(t) == <<"Bearer", t>>

Request(kind, ref, auth) == [kind |-> kind, ref |-> ref, auth |-> auth]

\* Pull returns err.
Return(err) == pc' = "returned" /\ ret' = err

(***************************************************************************)
(* Client.authenticate                                                     *)
(***************************************************************************)
authenticate(raw) ==
    LET r == SendRequestAndDecode([Token |-> ""], raw)
    IN [token |-> r.v.Token, err |-> ""]

Authenticate ==
    /\ pc = "authenticate"
    /\ \E raw \in Outcomes(TokenBodies) :
         LET a == authenticate(raw)
         IN /\ requests' = requests \cup {Request("token", "", <<>>)}
            /\ failures' = failures \cup
                 IF SendRequestAndDecode([Token |-> ""], raw).err # "" THEN {"token"} ELSE {}
            /\ token' = a.token
            /\ IF a.err # "" THEN Return(a.err)
               ELSE pc' = "fetchManifest" /\ ret' = ret
    /\ UNCHANGED <<runVars, exVars, httpVars, ginxVars, indexInfo, tagIndex, manifest, digestSel, layers, taskpc, taskres, errChan, cancelled,
                   closer, dlret, xi, extracted, fs, fs0, created, config>>

(***************************************************************************)
(* Client.fetchManifest and Client.fetchManifestByDigest                   *)
(***************************************************************************)
IsIndex(ctype) == ctype = CtypeOCIIndex \/ ctype = CtypeManifestList

\* PlatformMatches that compares the OS only.
PlatformMatchesOSOnly(m) == m.Platform.OS = GOOS

PlatformMatches(m) == m.Platform.OS = GOOS /\ m.Platform.Architecture = GOARCH

\* SelectPlatform of a loop that keeps the last entry that matches.
SelectPlatformLast(index) ==
    LET hits == {i \in 1..Len(index) : PlatformMatches(index[i])}
    IN IF hits = {} THEN 0 ELSE CHOOSE i \in hits : \A j \in hits : i >= j

\* The loop over index.Manifests: the position of the entry whose digest is
\* fetched, 0 when the loop ends without one.
SelectPlatform(index) ==
    LET hits == {i \in 1..Len(index) : PlatformMatches(index[i])}
    IN IF hits = {} THEN 0 ELSE CHOOSE i \in hits : \A j \in hits : i <= j

\* fetchManifest up to the point where it returns or calls
\* fetchManifestByDigest (next = the digest it passes on).
fetchManifest(raw) ==
    LET r == SendRequest(raw)
    IN IF r.err # ""
       THEN [err |-> "failed to download layer", manifest |-> manifest, next |-> ""]
       ELSE IF IsIndex(r.resp.ctype)
            THEN IF ~r.resp.valid
                 THEN [err |-> "error decoding manifest index", manifest |-> EmptyManifest,
                       next |-> ""]
                 ELSE LET k == SelectPlatform(r.resp.val.Manifests)
                      IN IF k = 0
                         THEN [err |-> "no matching platform found in manifest index",
                               manifest |-> EmptyManifest, next |-> ""]
                         ELSE [err |-> "", manifest |-> EmptyManifest,
                               next |-> r.resp.val.Manifests[k].Digest]
            ELSE IF ~r.resp.valid
                 THEN [err |-> "decode manifest", manifest |-> EmptyManifest, next |-> ""]
                 ELSE [err |-> "", manifest |-> r.resp.val, next |-> ""]

\* The answer is a well-formed index (a ghost of the exchange).
IsValidIndex(raw) ==
    ~raw.neterr /\ raw.status = StatusOK /\ raw.body.valid
      /\ raw.body.ctype \in {CtypeOCIIndex, CtypeManifestList}

\* No entry of the index is for the host's OS and architecture.
NoEntryForHost(ix) ==
    \A k \in 1..Len(ix) : ix[k].Platform # [OS |-> GOOS, Architecture |-> GOARCH]

FetchManifest ==
    /\ pc = "fetchManifest"
    /\ \E raw \in Outcomes(TagBodies) :
         LET m == fetchManifest(raw)
         IN /\ requests' = requests \cup {Request("manifest", "latest", Bearer(token))}
            /\ manifest' = m.manifest
            /\ digestSel' = m.next
            /\ failures' = failures \cup IF m.err # "" THEN {"manifest"} ELSE {}
            /\ indexInfo' = IF IsValidIndex(raw)
                             THEN IF NoEntryForHost(raw.body.val.Manifests)
                                  THEN "nomatch" ELSE "match"
                             ELSE "none"
            /\ tagIndex' = IF IsValidIndex(raw) THEN raw.body.val.Manifests ELSE <<>>
            /\ IF m.err # "" THEN Return(m.err)
               ELSE IF m.next # "" THEN pc' = "fetchManifestByDigest" /\ ret' = ret
               ELSE pc' = "makeRootfs" /\ ret' = ret
    /\ UNCHANGED <<runVars, exVars, httpVars, ginxVars, token, layers, taskpc, taskres, errChan, cancelled, closer, dlret, xi,
                   extracted, fs, fs0, created, config>>

fetchManifestByDigest(raw) ==
    LET r == SendRequestAndDecode(manifest, raw)
    IN [manifest |-> r.v, err |-> ""]

FetchManifestByDigest ==
    /\ pc = "fetchManifestByDigest"
    /\ \E raw \in Outcomes(DigestBodies(digestSel)) :
         LET m == fetchManifestByDigest(raw)
         IN /\ requests' = requests \cup {Request("manifest", digestSel, Bearer(token))}
            /\ manifest' = m.manifest
            /\ failures' = failures \cup
                 IF SendRequestAndDecode(manifest, raw).err # "" THEN {"manifestByDigest"} ELSE {}
            /\ IF m.err # "" THEN Return(m.err)
               ELSE pc' = "makeRootfs" /\ ret' = ret
    /\ UNCHANGED <<runVars, exVars, httpVars, ginxVars, indexInfo, tagIndex, token, digestSel, layers, taskpc, taskres, errChan, cancelled, closer,
                   dlret, xi, extracted, fs, fs0, created, config>>

(***************************************************************************)
(* Client.makeRootfs.  oserr is a failure of the operating system that     *)
(* does not follow from the state of the file system (permissions, I/O).   *)
(***************************************************************************)
makeRootfs(f, oserr) ==
    IF oserr = "remove"
    THEN [fs |-> f, err |-> "failed to remove existing image dir"]
    ELSE LET m == MkdirAll(RemoveAll(f, imagePath), imageRoot)
         IN IF oserr = "mkdir" \/ m.err # ""
            THEN [fs |-> RemoveAll(f, imagePath), err |-> "failed to create image rootfs dir"]
            ELSE [fs |-> m.fs, err |-> ""]

MakeRootfs ==
    /\ pc = "makeRootfs"
    /\ \E oserr \in {"", "remove", "mkdir"} :
         \E r \in {makeRootfs(fs, oserr)} :
            /\ fs' = r.fs
            /\ failures' = failures \cup IF r.err # "" THEN {"rootfs"} ELSE {}
            /\ IF r.err # "" THEN Return(r.err)
               ELSE pc' = "downloadImage" /\ ret' = ret
    /\ UNCHANGED <<runVars, exVars, httpVars, ginxVars, indexInfo, tagIndex, token, manifest, digestSel, layers, taskpc, taskres, errChan, cancelled,
                   closer, dlret, xi, extracted, fs0, created, config, requests>>

(***************************************************************************)
(* Client.downloadImage: the launch of the goroutines, the goroutines      *)
(* (Client.downloadLayer and the publication of its error), the goroutine  *)
(* that closes done, and the select of the waiter.                         *)
(***************************************************************************)
Tasks == DOMAIN taskpc

DownloadImage ==
    /\ pc = "downloadImage"
    /\ layers' = EmptyMap
    /\ cancelled' = FALSE
    /\ errChan' = <<>>
    /\ taskpc' = [i \in 1..Len(manifest.Layers) |-> "start"]
    /\ taskres' = [i \in 1..Len(manifest.Layers) |-> ""]
    /\ closer' = "waiting"
    /\ pc' = "select"
    /\ UNCHANGED <<runVars, exVars, httpVars, ginxVars, indexInfo, tagIndex, ret, token, manifest, digestSel, dlret, xi, extracted, fs, fs0, created,
                   config, requests, failures>>

\* downloadLayer returns err in goroutine i.
Fail(i, err) ==
    /\ taskres' = [taskres EXCEPT ![i] = err]
    /\ taskpc' = [taskpc EXCEPT ![i] = "publish"]
    /\ failures' = failures \cup {"layer"}

\* The errors of downloadLayer that only report the cancellation.
IsCancelErr(err) == err = "context canceled"

\* downloadLayer, first select on ctx.Done()
CheckCancelled1(i) ==
    /\ taskpc[i] = "start"
    /\ IF cancelled THEN Fail(i, "context canceled")
       ELSE /\ taskpc' = [taskpc EXCEPT ![i] = "request"]
            /\ UNCHANGED <<taskres, failures>>
    /\ UNCHANGED <<runVars, exVars, httpVars, ginxVars, indexInfo, tagIndex, pc, ret, token, manifest, digestSel, layers, errChan, cancelled, closer,
                   dlret, xi, extracted, fs, fs0, created, config, requests>>

\* downloadLayer, SendRequestWithContext for the blob
RequestLayer(i) ==
    /\ taskpc[i] = "request"
    /\ IF cancelled
       THEN Fail(i, "context canceled") /\ UNCHANGED requests
       ELSE /\ requests' = requests \cup
                 {Request("blob", manifest.Layers[i], Bearer(token))}
            /\ \E raw \in Outcomes({JSON("application/octet-stream", <<>>)}) :
                 IF SendRequest(raw).err # "" THEN Fail(i, "failed to download layer")
                 ELSE /\ taskpc' = [taskpc EXCEPT ![i] = "check"]
                      /\ UNCHANGED <<taskres, failures>>
    /\ UNCHANGED <<runVars, exVars, httpVars, ginxVars, indexInfo, tagIndex, pc, ret, token, manifest, digestSel, layers, errChan, cancelled, closer,
                   dlret, xi, extracted, fs, fs0, created, config>>

\* downloadLayer, second select on ctx.Done()
CheckCancelled2(i) ==
    /\ taskpc[i] = "check"
    /\ IF cancelled THEN Fail(i, "context canceled")
       ELSE /\ taskpc' = [taskpc EXCEPT ![i] = "read"]
            /\ UNCHANGED <<taskres, failures>>
    /\ UNCHANGED <<runVars, exVars, httpVars, ginxVars, indexInfo, tagIndex, pc, ret, token, manifest, digestSel, layers, errChan, cancelled, closer,
                   dlret, xi, extracted, fs, fs0, created, config, requests>>

\* Verified without the comparison: every download is stored.
VerifiedUnchecked(data, digest) == TRUE

\* The digest check of downloadLayer.
Verified(data, digest) == Digest(data) = digest

\* downloadLayer, from io.ReadAll to the write to the map under the mutex
ReadVerifyStore(i) ==
    /\ taskpc[i] = "read"
    /\ \/ /\ cancelled
          /\ Fail(i, "context canceled")
          /\ UNCHANGED layers
       \/ /\ Fail(i, "failed to read layer")
          /\ UNCHANGED layers
       \/ \E data \in LayerBodies(manifest.Layers[i]) :
            IF ~Verified(data, manifest.Layers[i])
            THEN Fail(i, "digest mismatch") /\ UNCHANGED layers
            ELSE /\ layers' = [d \in DOMAIN layers \cup {manifest.Layers[i]} |->
                                 IF d = manifest.Layers[i] THEN data ELSE layers[d]]
                 /\ taskres' = [taskres EXCEPT ![i] = "nil"]
                 /\ taskpc' = [taskpc EXCEPT ![i] = "wgdone"]
                 /\ UNCHANGED failures
    /\ UNCHANGED <<runVars, exVars, httpVars, ginxVars, indexInfo, tagIndex, pc, ret, token, manifest, digestSel, errChan, cancelled, closer, dlret,
                   xi, extracted, fs, fs0, created, config, requests>>

\* capacity of errChan
ErrChanCap == 1

\* The goroutine's publication with cancel() called before the send.
PublishCancelFirst(i) ==
    /\ taskpc[i] = "publish"
    /\ IF ~cancelled
       THEN /\ cancelled' = TRUE
            /\ UNCHANGED <<errChan, taskpc>>
       ELSE /\ errChan' = IF Len(errChan) < ErrChanCap
                          THEN Append(errChan, [task |-> i, err |-> taskres[i]])
                          ELSE errChan
            /\ taskpc' = [taskpc EXCEPT ![i] = "wgdone"]
            /\ UNCHANGED cancelled
    /\ UNCHANGED <<runVars, exVars, httpVars, ginxVars, indexInfo, tagIndex, pc, ret, token, manifest, digestSel, layers, taskres, closer,
                   dlret, xi, extracted, fs, fs0, created, config, requests, failures>>

\* The goroutine's select: send the error if the channel has room, else drop it.
Publish(i) ==
    /\ taskpc[i] = "publish"
    /\ IF Len(errChan) < ErrChanCap
       THEN /\ errChan' = Append(errChan, [task |-> i, err |-> taskres[i]])
            /\ taskpc' = [taskpc EXCEPT ![i] = "cancel"]
       ELSE /\ taskpc' = [taskpc EXCEPT ![i] = "wgdone"]
            /\ UNCHANGED errChan
    /\ UNCHANGED <<runVars, exVars, httpVars, ginxVars, indexInfo, tagIndex, pc, ret, token, manifest, digestSel, layers, taskres, cancelled, closer,
                   dlret, xi, extracted, fs, fs0, created, config, requests, failures>>

\* cancel() after a successful send
Cancel(i) ==
    /\ taskpc[i] = "cancel"
    /\ cancelled' = TRUE
    /\ taskpc' = [taskpc EXCEPT ![i] = "wgdone"]
    /\ UNCHANGED <<runVars, exVars, httpVars, ginxVars, indexInfo, tagIndex, pc, ret, token, manifest, digestSel, layers, taskres, errChan, closer,
                   dlret, xi, extracted, fs, fs0, created, config, requests, failures>>

\* wg.Done() that is not deferred: it is reached only when downloadLayer
\* returned nil.
WgDoneOnSuccess(i) ==
    /\ taskpc[i] = "wgdone"
    /\ taskres[i] = "nil"
    /\ taskpc' = [taskpc EXCEPT ![i] = "exited"]
    /\ UNCHANGED <<runVars, exVars, httpVars, ginxVars, indexInfo, tagIndex, pc, ret, token, manifest, digestSel, layers, taskres, errChan, cancelled,
                   closer, dlret, xi, extracted, fs, fs0, created, config, requests, failures>>

\* the deferred wg.Done()
WgDone(i) ==
    /\ taskpc[i] = "wgdone"
    /\ taskpc' = [taskpc EXCEPT ![i] = "exited"]
    /\ UNCHANGED <<runVars, exVars, httpVars, ginxVars, indexInfo, tagIndex, pc, ret, token, manifest, digestSel, layers, taskres, errChan, cancelled,
                   closer, dlret, xi, extracted, fs, fs0, created, config, requests, failures>>

\* WaitGroupZero of a closer that does not wait for the goroutines.
WaitGroupZeroNoWait == TRUE

\* WaitGroupZero of a wait group that is only released by a goroutine.
WaitGroupZeroNeedsTask == Tasks # {} /\ \A i \in Tasks : taskpc[i] = "exited"

\* wg.Wait() returns
WaitGroupZero == \A i \in Tasks : taskpc[i] = "exited"

\* go func() { wg.Wait(); close(done) }()
CloseDone ==
    /\ closer = "waiting"
    /\ WaitGroupZero
    /\ closer' = "closed"
    /\ UNCHANGED <<runVars, exVars, httpVars, ginxVars, indexInfo, tagIndex, pc, ret, token, manifest, digestSel, layers, taskpc, taskres, errChan,
                   cancelled, dlret, xi, extracted, fs, fs0, created, config, requests,
                   failures>>

\* select, case err := <-errChan: downloadImage returns err, and so does Pull
SelectErr ==
    /\ pc = "select"
    /\ errChan # <<>>
    /\ dlret' = Head(errChan)
    /\ errChan' = Tail(errChan)
    /\ cancelled' = TRUE
    /\ Return(Head(errChan).err)
    /\ UNCHANGED <<runVars, exVars, httpVars, ginxVars, indexInfo, tagIndex, token, manifest, digestSel, layers, taskpc, taskres, closer, xi,
                   extracted, fs, fs0, created, config, requests, failures>>

\* select, case <-done: downloadImage returns nil
SelectDone ==
    /\ pc = "select"
    /\ closer = "closed"
    /\ dlret' = ReturnedNil
    /\ cancelled' = TRUE
    /\ pc' = "extractImage"
    /\ xi' = 1
    /\ UNCHANGED <<runVars, exVars, httpVars, ginxVars, indexInfo, tagIndex, ret, token, manifest, digestSel, layers, taskpc, taskres, errChan, closer,
                   extracted, fs, fs0, created, config, requests, failures>>

(***************************************************************************)
(* Client.extractImage, one layer of the loop at a time.                   *)
(***************************************************************************)
\* The error extractImage wraps around the one of extractLayer.
Extracted(x, data) ==
    [fs |-> x.fs, err |-> IF x.err # "" THEN "failed to extract layer" ELSE "",
     made |-> x.made, data |-> data]

\* gzip.NewReader returned g for the bytes data.
Unpack(f, g, data) ==
    IF g.err # ""
    THEN [fs |-> f, err |-> "failed to create gzip reader", made |-> {}, data |-> data]
    ELSE Extracted(extractLayer(f, g.tr, imageRoot), data)

\* The body of the loop of extractImage for the layer with this digest.
extractDigest(f, digest) ==
    IF digest \notin DOMAIN layers
    THEN [fs |-> f, err |-> "layer data not found", made |-> {}, data |-> ""]
    ELSE Unpack(f, Gunzip(layers[digest]), layers[digest])

\* extractOne of a loop that walks the layers from the last to the first.
extractOneReversed(f, j) == extractDigest(f, manifest.Layers[Len(manifest.Layers) + 1 - j])

\* The body of the loop of extractImage for manifest position j.
extractOne(f, j) == extractDigest(f, manifest.Layers[j])

\* A loop of extractImage that ends after the first layer.
LoopEndedAfterFirst == xi > 1 \/ xi > Len(manifest.Layers)

\* The loop of extractImage over c.manifest.Layers has ended.
LoopEnded == xi > Len(manifest.Layers)

ExtractImage ==
    /\ pc = "extractImage"
    /\ IF LoopEnded
       THEN /\ pc' = "fetchConfig"
            /\ UNCHANGED <<ret, xi, extracted, fs, created, failures>>
       ELSE \E x \in {extractOne(fs, xi)} :
               /\ fs' = x.fs
               /\ created' = created \cup x.made
               /\ IF x.err # ""
                  THEN /\ Return(x.err)
                       /\ failures' = failures \cup {"extract"}
                       /\ UNCHANGED <<xi, extracted>>
                  ELSE /\ xi' = xi + 1
                       /\ extracted' = Append(extracted, [pos |-> xi, data |-> x.data])
                       /\ UNCHANGED <<pc, ret, failures>>
    /\ UNCHANGED <<runVars, exVars, httpVars, ginxVars, indexInfo, tagIndex, token, manifest, digestSel, layers, taskpc, taskres, errChan, cancelled,
                   closer, dlret, fs0, config, requests>>

(***************************************************************************)
(* Client.fetchConfig                                                      *)
(***************************************************************************)
fetchConfig(f, raw) ==
    LET r == SendRequestAndDecode(ZeroConfig, raw)
        w == WriteFile(f, configPath, MarshalIndent(r.v))
    IN IF w.err # "" THEN [fs |-> w.fs, config |-> r.v, err |-> "failed to save config file"]
       ELSE [fs |-> w.fs, config |-> r.v, err |-> ""]

FetchConfig ==
    /\ pc = "fetchConfig"
    /\ \E raw \in Outcomes(ConfigBodies) :
         \E c \in {fetchConfig(fs, raw)} :
            /\ requests' = requests \cup
                 {Request("blob", manifest.Config.Digest, Bearer(token))}
            /\ failures' = failures \cup
                 IF SendRequestAndDecode(ZeroConfig, raw).err # "" \/ c.err # ""
                 THEN {"config"} ELSE {}
            /\ fs' = c.fs
            /\ config' = c.config
            /\ Return(IF c.err # "" THEN c.err ELSE "nil")
    /\ UNCHANGED <<runVars, exVars, httpVars, ginxVars, indexInfo, tagIndex, token, manifest, digestSel, layers, taskpc, taskres, errChan, cancelled,
                   closer, dlret, xi, extracted, fs0, created>>

\* What a complete pull of the two-layer image into an empty store leaves,
\* inside the image directory and outside it.
PulledFs ==
    WriteFile(Unpack(Unpack(makeRootfs(EmptyFs, "").fs, Gunzip("blobA"), "blobA").fs,
                     Gunzip("blobB"), "blobB").fs,
              configPath, MarshalIndent(ZeroConfig)).fs

\* The state in which Client.Pull starts: a new Client, and an image store
\* that is empty or holds what an earlier pull of the same name left.
InitPull ==
    /\ RunIdle
    /\ ExtractIdle
    /\ HttpIdle
    /\ GinxIdle
    /\ pc = "authenticate"
    /\ ret = "none"
    /\ token = ""
    /\ manifest = EmptyManifest
    /\ digestSel = ""
    /\ layers = EmptyMap
    /\ taskpc = <<>>
    /\ taskres = <<>>
    /\ errChan = <<>>
    /\ cancelled = FALSE
    /\ closer = "idle"
    /\ dlret = NotReturned
    /\ xi = 0
    /\ extracted = <<>>
    /\ fs \in {EmptyFs, OldFs, PulledFs}
    /\ fs0 = fs
    /\ created = {}
    /\ config = ZeroConfig
    /\ requests = {}
    /\ failures = {}
    /\ indexInfo = "none"
    /\ tagIndex = <<>>

NextPull ==
    \/ Authenticate
    \/ FetchManifest
    \/ FetchManifestByDigest
    \/ MakeRootfs
    \/ DownloadImage
    \/ \E i \in Tasks : CheckCancelled1(i)
    \/ \E i \in Tasks : RequestLayer(i)
    \/ \E i \in Tasks : CheckCancelled2(i)
    \/ \E i \in Tasks : ReadVerifyStore(i)
    \/ \E i \in Tasks : Publish(i)
    \/ \E i \in Tasks : Cancel(i)
    \/ \E i \in Tasks : WgDone(i)
    \/ CloseDone
    \/ SelectErr
    \/ SelectDone
    \/ ExtractImage
    \/ FetchConfig

Spec == InitPull /\ [][NextPull]_vars

\* One step of the download goroutine of layer i.
TaskStep(i) ==
    /\ i \in Tasks
    /\ \/ CheckCancelled1(i)
       \/ RequestLayer(i)
       \/ CheckCancelled2(i)
       \/ ReadVerifyStore(i)
       \/ Publish(i)
       \/ Cancel(i)
       \/ WgDone(i)

\* Client.downloadImage on its own: the state in which Pull calls it, after
\* the token and the manifest of the tag were fetched and makeRootfs made
\* the directories in an empty store.
InitDownload ==
    /\ RunIdle
    /\ ExtractIdle
    /\ HttpIdle
    /\ GinxIdle
    /\ pc = "downloadImage"
    /\ ret = "none"
    /\ token \in Tokens
    /\ manifest \in Manifests
    /\ digestSel = ""
    /\ layers = EmptyMap
    /\ taskpc = <<>>
    /\ taskres = <<>>
    /\ errChan = <<>>
    /\ cancelled = FALSE
    /\ closer = "idle"
    /\ dlret = NotReturned
    /\ xi = 0
    /\ extracted = <<>>
    /\ fs = makeRootfs(EmptyFs, "").fs
    /\ fs0 = EmptyFs
    /\ created = {}
    /\ config = ZeroConfig
    /\ requests = {Request("token", "", <<>>), Request("manifest", "latest", Bearer(token))}
    /\ failures = {}
    /\ indexInfo = "none"
    /\ tagIndex = <<>>

NextDownload ==
    \/ DownloadImage
    \/ \E i \in Tasks : CheckCancelled1(i)
    \/ \E i \in Tasks : RequestLayer(i)
    \/ \E i \in Tasks : CheckCancelled2(i)
    \/ \E i \in Tasks : ReadVerifyStore(i)
    \/ \E i \in Tasks : Publish(i)
    \/ \E i \in Tasks : Cancel(i)
    \/ \E i \in Tasks : WgDone(i)
    \/ CloseDone
    \/ SelectErr
    \/ SelectDone

\* The Go scheduler runs every goroutine that can take a step: the download
\* goroutines, the goroutine that closes done, and the one that called
\* downloadImage.  An HTTP exchange ends (with a response, an error or the
\* cancellation).
Fairness ==
    /\ \A i \in 1..MaxLayers : WF_vars(TaskStep(i))
    /\ WF_vars(CloseDone)
    /\ WF_vars(DownloadImage \/ SelectErr \/ SelectDone)

SpecDownload == InitDownload /\ [][NextDownload]_vars /\ Fairness

(***************************************************************************)
(* gocker run: cmd.run, container.NewContainer, Container.Run and the two  *)
(* phases.  Every gocker process runs the same program.                    *)
(***************************************************************************)
ExitError(code) == [type |-> "ExitError", code |-> code]
Error(msg) == [type |-> "error", msg |-> msg]

\* os.Exit(code), as the status the waiting process sees
OsExit(code) == code % 256

ExitCodes == 0..255

\* How the run of a command can end: it cannot be started, it exits with a
\* code, or a signal ends it.
Outcomes_Cmd ==
    {[kind |-> "startfail"], [kind |-> "signaled"]}
      \cup {[kind |-> "exited", code |-> k] : k \in ExitCodes}

\* exec.ExitError.ExitCode()
ExitCodeOf(o) == IF o.kind = "exited" THEN o.code ELSE 0 - 1

\* exec.Cmd.Run()
CmdRun(o) ==
    IF o.kind = "startfail" THEN Error("exec: not started")
    ELSE IF o.kind = "exited" /\ o.code = 0 THEN Nil
    ELSE ExitError(ExitCodeOf(o))

\* os.Getenv in a process whose environment is the list e
Getenv(e, k) ==
    LET hits == {i \in 1..Len(e) : e[i][1] = k}
    IN IF hits = {} THEN "" ELSE e[CHOOSE i \in hits : \A j \in hits : i <= j][2]

\* The environment exec.Cmd gives the new process from cmd.Env: of entries
\* with the same key only the last one is kept.
DedupEnv(e) ==
    LET keep == {i \in 1..Len(e) : \A j \in (i + 1)..Len(e) : e[j][1] # e[i][1]}
        ord == CHOOSE f \in [1..Cardinality(keep) -> keep] :
                 \A a, b \in 1..Cardinality(keep) : a < b => f[a] < f[b]
    IN [a \in 1..Cardinality(keep) |-> e[ord[a]]]

\* os.Getpid(): the process the driver started has a PID of the host, a
\* process started with CLONE_NEWPID is PID 1 of its namespace.
Getpid(d) == IF Depth(d) = 1 THEN 4242 + d ELSE 1

\* Container.setMinEnv
setMinEnv ==
    <<<<"HOME", "/root">>, <<"USER", "root">>, <<"SHELL", "/bin/sh">>, <<"TERM", "xterm">>>>

\* ContainerSuffix of a default hostname that leaves out the image name.
ContainerSuffixWithoutName(imgName) == "container"

\* imgName + "-container", for the image names of the model
ContainerSuffix(imgName) ==
    IF imgName = "alpine" THEN "alpine-container" ELSE "-container"

\* fromConfigFile of a loader that takes a file it cannot read for an empty
\* config.
fromConfigFileLenient(c, file) ==
    [c |-> [c EXCEPT !.workingDir = "/", !.hostname = ContainerSuffix(c.imgName)],
     err |-> Nil]

\* Container.fromConfigFile on the file found at the config path
fromConfigFile(c, file) ==
    IF file.state = "missing" THEN [c |-> c, err |-> Error("failed to open config file")]
    ELSE IF file.state = "invalid" THEN [c |-> c, err |-> Error("failed to decode config file")]
    ELSE LET cfg == DecodeConfig(file.doc)
         IN [c |-> [c EXCEPT !.env = c.env \o cfg.Config.Env,
                             !.workingDir = IF cfg.Config.WorkingDir = "" THEN "/"
                                            ELSE cfg.Config.WorkingDir,
                             !.hostname = IF cfg.Config.Hostname = ""
                                          THEN ContainerSuffix(c.imgName)
                                          ELSE cfg.Config.Hostname],
             err |-> Nil]

\* NewContainer of a runner that names the cgroup directory without the PID.
NewContainerSharedCgroup(home, pid, imgName, cmd, args) ==
    fromConfigFile([imgName |-> imgName, home |-> home, cgroupPath |-> <<"gocker", 0>>,
                    cmd |-> cmd, args |-> args, env |-> setMinEnv,
                    workingDir |-> "", hostname |-> ""],
                   IF home \in Homes THEN store[home] ELSE MissingFile)

\* container.NewContainer in a process with HOME = home and PID pid
NewContainer(home, pid, imgName, cmd, args) ==
    fromConfigFile([imgName |-> imgName, home |-> home, cgroupPath |-> <<"gocker", pid>>,
                    cmd |-> cmd, args |-> args, env |-> setMinEnv,
                    workingDir |-> "", hostname |-> ""],
                   IF home \in Homes THEN store[home] ELSE MissingFile)

Exit(d, code) ==
    /\ status' = [status EXCEPT ![d] = OsExit(code)]
    /\ rpc' = [rpc EXCEPT ![d] = "exited"]

\* cmd.run up to cn.Run(): the arguments are taken apart (a panic of the Go
\* runtime ends the process with status 2) and the container is built.
RunEntry(d) ==
    /\ rpc[d] = "run"
    /\ IF Len(osArgs) < 2
       THEN /\ Exit(d, 2)
            /\ diag' = [diag EXCEPT ![d] = Append(@, "panic: index out of range")]
            /\ UNCHANGED cn
       ELSE LET n == NewContainer(Getenv(procEnv[d], "HOME"), Getpid(d), osArgs[1],
                                  osArgs[2], SubSeq(osArgs, 3, Len(osArgs)))
            IN IF n.err # Nil
               THEN /\ Exit(d, 1)
                    /\ diag' = [diag EXCEPT ![d] = Append(@, "Error during container creation")]
                    /\ UNCHANGED cn
               ELSE /\ cn' = [cn EXCEPT ![d] = n.c]
                    /\ rpc' = [rpc EXCEPT ![d] = "Run"]
                    /\ UNCHANGED <<status, diag>>
    /\ UNCHANGED <<store, hostname, osArgs, procEnv, rerr, target, sys, cgroups>>
    /\ UNCHANGED <<pullVars, exVars, httpVars, ginxVars>>

\* Container.Run: the phase
IsChildPhase(e) == Getenv(e, "IS_CHILD") = "1"

ContainerRun(d) ==
    /\ rpc[d] = "Run"
    /\ rpc' = [rpc EXCEPT ![d] = IF IsChildPhase(procEnv[d]) THEN "setupNamespaces"
                                 ELSE "setupCgroup"]
    /\ UNCHANGED <<store, hostname, osArgs, procEnv, cn, rerr, status, target, sys, cgroups, diag>>
    /\ UNCHANGED <<pullVars, exVars, httpVars, ginxVars>>

\* The steps of a function that returns at the first failing one: those
\* done when step failAt fails (failAt = 0: none fails).
Done(steps, failAt) == IF failAt = 0 THEN steps ELSE SubSeq(steps, 1, failAt - 1)

CgroupSteps == <<"mkdir", "memory.max", "cpu.max", "cgroup.procs">>

\* Container.setupCgroup
setupCgroup(cg, c, pid, failAt) ==
    LET did == Done(CgroupSteps, failAt)
        has(x) == \E i \in 1..Len(did) : did[i] = x
        dir == [f \in {x \in {"memory.max", "cpu.max", "cgroup.procs"} : has(x)} |->
                  CASE f = "memory.max" -> "50M"
                    [] f = "cpu.max" -> "20000 100000"
                    [] f = "cgroup.procs" -> pid]
    IN [cgroups |-> IF has("mkdir")
                    THEN [q \in DOMAIN cg \cup {c.cgroupPath} |->
                            IF q = c.cgroupPath THEN dir ELSE cg[q]]
                    ELSE cg,
        did |-> did,
        err |-> IF failAt = 0 THEN Nil ELSE Error("cgroup setup failed")]

\* runParentProcess: c.setupCgroup()
SetupCgroup(d) ==
    /\ rpc[d] = "setupCgroup"
    /\ \E failAt \in 0..Len(CgroupSteps) :
         LET r == setupCgroup(cgroups, cn[d], Getpid(d), failAt)
         IN /\ cgroups' = r.cgroups
            /\ sys' = [sys EXCEPT ![d] = @ \o r.did]
    /\ rpc' = [rpc EXCEPT ![d] = "spawn"]
    /\ UNCHANGED <<store, hostname, osArgs, procEnv, cn, rerr, status, target, diag>>
    /\ UNCHANGED <<pullVars, exVars, httpVars, ginxVars>>

\* ChildEnv of a parent that puts IS_CHILD=1 in front of the container's
\* environment.
ChildEnvMarkerFirst(c) == DedupEnv(<<<<"IS_CHILD", "1">>>> \o c.env)

\* runParentProcess: the environment of the process it starts
ChildEnv(c) == DedupEnv(Append(c.env, <<"IS_CHILD", "1">>))

\* runParentProcess: cmd.Run() starts /proc/self/exe in new namespaces
Spawn(d) ==
    /\ rpc[d] = "spawn"
    /\ Depth(d) < MaxDepth
    /\ \/ /\ rerr' = [rerr EXCEPT ![d] = Error("fork/exec /proc/self/exe")]
          /\ rpc' = [rpc EXCEPT ![d] = "cleanupCgroup"]
          /\ UNCHANGED <<procEnv, sys>>
       \/ /\ procEnv' = [procEnv EXCEPT ![d + 1] = ChildEnv(cn[d])]
          /\ rpc' = [rpc EXCEPT ![d] = "wait", ![d + 1] = "run"]
          /\ sys' = [sys EXCEPT ![d] = Append(@, "spawn")]
          /\ UNCHANGED rerr
    /\ UNCHANGED <<store, hostname, osArgs, cn, status, target, cgroups, diag>>
    /\ UNCHANGED <<pullVars, exVars, httpVars, ginxVars>>

\* runParentProcess: cmd.Run() returns when the process it started has exited
Wait(d) ==
    /\ rpc[d] = "wait"
    /\ rpc[d + 1] = "exited"
    /\ rerr' = [rerr EXCEPT ![d] = CmdRun([kind |-> "exited", code |-> status[d + 1]])]
    /\ rpc' = [rpc EXCEPT ![d] = "cleanupCgroup"]
    /\ UNCHANGED <<store, hostname, osArgs, procEnv, cn, status, target, sys, cgroups, diag>>
    /\ UNCHANGED <<pullVars, exVars, httpVars, ginxVars>>

\* cleanupCgroup of a teardown that leaves the cgroup directory.
cleanupCgroupKeepsDir(cg, c, removeFails) == cg

\* Container.cleanupCgroup
cleanupCgroup(cg, c, removeFails) ==
    IF removeFails THEN cg ELSE [q \in DOMAIN cg \ {c.cgroupPath} |-> cg[q]]

\* CleanupCgroup of a teardown that stops at a failed restore and turns a
\* failure into the error of the run.
CleanupCgroupFatal(d) ==
    /\ rpc[d] = "cleanupCgroup"
    /\ \E restoreFails, removeFails \in BOOLEAN :
         /\ cgroups' = cleanupCgroup(cgroups, cn[d], restoreFails \/ removeFails)
         /\ sys' = [sys EXCEPT ![d] = @ \o (IF restoreFails THEN <<>> ELSE <<"restore">>)
                                        \o (IF restoreFails \/ removeFails THEN <<>>
                                            ELSE <<"remove">>)]
         /\ rerr' = [rerr EXCEPT ![d] = IF restoreFails \/ removeFails
                                        THEN Error("cgroup teardown failed") ELSE @]
    /\ rpc' = [rpc EXCEPT ![d] = "handle"]
    /\ UNCHANGED <<store, hostname, osArgs, procEnv, cn, status, target, diag>>
    /\ UNCHANGED <<pullVars, exVars, httpVars, ginxVars>>

\* runParentProcess: the deferred c.cleanupCgroup()
CleanupCgroup(d) ==
    /\ rpc[d] = "cleanupCgroup"
    /\ \E restoreFails, removeFails \in BOOLEAN :
         /\ cgroups' = cleanupCgroup(cgroups, cn[d], removeFails)
         /\ sys' = [sys EXCEPT ![d] = @ \o (IF restoreFails THEN <<>> ELSE <<"restore">>)
                                        \o (IF removeFails THEN <<>> ELSE <<"remove">>)]
         /\ diag' = [diag EXCEPT ![d] =
                       @ \o (IF restoreFails
                             THEN <<"Warning: Failed to move process out of cgroup">> ELSE <<>>)
                         \o (IF removeFails
                             THEN <<"Warning: Failed to remove cgroup directory">> ELSE <<>>)]
    /\ rpc' = [rpc EXCEPT ![d] = "handle"]
    /\ UNCHANGED <<store, hostname, osArgs, procEnv, cn, rerr, status, target>>
    /\ UNCHANGED <<pullVars, exVars, httpVars, ginxVars>>

\* ChildSteps of a child phase that goes on after a failed step.
ChildStepsIgnoringFailure(d, steps, failAt, next) ==
    /\ sys' = [sys EXCEPT ![d] = @ \o Done(steps, failAt)]
    /\ rpc' = [rpc EXCEPT ![d] = next]
    /\ UNCHANGED rerr

\* A step list of the child phase, run until the first failure.
ChildSteps(d, steps, failAt, next) ==
    /\ sys' = [sys EXCEPT ![d] = @ \o Done(steps, failAt)]
    /\ IF failAt = 0
       THEN rpc' = [rpc EXCEPT ![d] = next] /\ UNCHANGED rerr
       ELSE /\ rpc' = [rpc EXCEPT ![d] = "handle"]
            /\ rerr' = [rerr EXCEPT ![d] = Error(<<"failed", steps[failAt]>>)]

NamespaceSteps == <<"unshare", "mount-private", "sethostname">>

\* Container.setupNamespaces
SetupNamespaces(d) ==
    /\ rpc[d] = "setupNamespaces"
    /\ \E failAt \in 0..Len(NamespaceSteps) :
         /\ ChildSteps(d, NamespaceSteps, failAt, "setupFilesystem")
         /\ hostname' = IF failAt = 0
                         THEN [hostname EXCEPT ![UtsNamespace(d)] = cn[d].hostname]
                         ELSE hostname
    /\ UNCHANGED <<store, osArgs, procEnv, cn, status, target, cgroups, diag>>
    /\ UNCHANGED <<pullVars, exVars, httpVars, ginxVars>>

FilesystemSteps == <<"chdir-rootfs", "chroot", "chdir-/">>

\* Whether os.Chdir(c.workingDir) can fail: not for "/", to which the
\* process has just changed.
WorkdirFailures(c) == IF c.workingDir = "/" THEN {FALSE} ELSE BOOLEAN

\* Container.setupFilesystem: a failing chdir to the working directory is
\* only reported.
SetupFilesystem(d) ==
    /\ rpc[d] = "setupFilesystem"
    /\ \E failAt \in 0..Len(FilesystemSteps), wdFails \in WorkdirFailures(cn[d]) :
         /\ ChildSteps(d, FilesystemSteps \o (IF wdFails THEN <<>> ELSE <<"chdir-workdir">>),
                       failAt, "mountProc")
         /\ diag' = [diag EXCEPT ![d] =
                       IF failAt = 0 /\ wdFails
                       THEN Append(@, "WARNING: failed to chdir to working dir") ELSE @]
    /\ UNCHANGED <<store, hostname, osArgs, procEnv, cn, status, target, cgroups>>
    /\ UNCHANGED <<pullVars, exVars, httpVars, ginxVars>>

ProcSteps == <<"mkdir-proc", "mount-proc">>

\* Container.mountProc
MountProc(d) ==
    /\ rpc[d] = "mountProc"
    /\ \E failAt \in 0..Len(ProcSteps) : ChildSteps(d, ProcSteps, failAt, "exec")
    /\ UNCHANGED <<store, hostname, osArgs, procEnv, cn, status, target, cgroups, diag>>
    /\ UNCHANGED <<pullVars, exVars, httpVars, ginxVars>>

\* How cmd.Run() of the target can end in process d: with cmd.Dir set to
\* the working directory the new process is started only if it can chdir
\* there, which it cannot when os.Chdir to the same path has just failed.
TargetOutcomes(d) ==
    IF \E i \in 1..Len(sys[d]) : sys[d][i] = "chdir-workdir"
    THEN Outcomes_Cmd
    ELSE {[kind |-> "startfail"]}

\* runChildProcess: cmd.Run() of the target command
ExecTarget(d) ==
    /\ rpc[d] = "exec"
    /\ \E o \in TargetOutcomes(d) :
         /\ target' = [target EXCEPT ![d] =
                         [cmd |-> cn[d].cmd, args |-> cn[d].args, env |-> DedupEnv(cn[d].env),
                          dir |-> cn[d].workingDir, outcome |-> o]]
         /\ rerr' = [rerr EXCEPT ![d] = CmdRun(o)]
    /\ rpc' = [rpc EXCEPT ![d] = "unmountProc"]
    /\ UNCHANGED <<store, hostname, osArgs, procEnv, cn, status, sys, cgroups, diag>>
    /\ UNCHANGED <<pullVars, exVars, httpVars, ginxVars>>

\* runChildProcess: the deferred c.unmountProc()
UnmountProc(d) ==
    /\ rpc[d] = "unmountProc"
    /\ \E fails \in BOOLEAN :
         /\ sys' = [sys EXCEPT ![d] = IF fails THEN @ ELSE Append(@, "unmount-proc")]
         /\ diag' = [diag EXCEPT ![d] =
                       IF fails THEN Append(@, "WARNING: failed to unmount proc dir") ELSE @]
    /\ rpc' = [rpc EXCEPT ![d] = "handle"]
    /\ UNCHANGED <<store, hostname, osArgs, procEnv, cn, rerr, status, target, cgroups>>
    /\ UNCHANGED <<pullVars, exVars, httpVars, ginxVars>>

\* ExitStatus of a handler that exits 1 on every error.
ExitStatusAlwaysOne(err) == IF err = Nil THEN 0 ELSE OsExit(1)

\* cmd.run after cn.Run(): the exit status of the process
ExitStatus(err) ==
    IF err = Nil THEN 0
    ELSE IF err.type = "ExitError" THEN OsExit(err.code)
    ELSE OsExit(1)

HandleRunErr(d) ==
    /\ rpc[d] = "handle"
    /\ Exit(d, ExitStatus(rerr[d]))
    /\ diag' = [diag EXCEPT ![d] =
                  IF rerr[d] # Nil /\ rerr[d].type # "ExitError"
                  THEN Append(@, "Error during container excecution") ELSE @]
    /\ UNCHANGED <<store, hostname, osArgs, procEnv, cn, rerr, target, sys, cgroups>>
    /\ UNCHANGED <<pullVars, exVars, httpVars, ginxVars>>

\* The image store the driver's user may have, and the driver's call.
ConfigFiles ==
    {MissingFile, [state |-> "invalid", doc |-> {}]}
      \cup {[state |-> "ok", doc |-> MarshalIndent(c)] : c \in ImageConfigs}

RunArgs == {<<"alpine">>, <<"alpine", "sh">>, <<"alpine", "sh", "-c">>}

InitRun ==
    /\ fs = EmptyFs
    /\ PullIdle
    /\ ExtractIdle
    /\ HttpIdle
    /\ GinxIdle
    /\ \E H \in SUBSET Homes, f \in ConfigFiles :
         store = [h \in Homes |-> IF h \in H THEN f ELSE MissingFile]
    /\ osArgs \in RunArgs
    /\ \E home \in Homes, isChild \in {"", "1"} :
         procEnv = [d \in Procs |->
                      IF d = 1
                      THEN <<<<"HOME", home>>>>
                             \o (IF isChild = "" THEN <<>> ELSE <<<<"IS_CHILD", isChild>>>>)
                      ELSE <<>>]
    /\ rpc = [d \in Procs |-> IF d = 1 THEN "run" ELSE "none"]
    /\ cn = [d \in Procs |-> <<>>]
    /\ rerr = [d \in Procs |-> Nil]
    /\ status = [d \in Procs |-> NotExited]
    /\ target = [d \in Procs |-> NoTarget]
    /\ sys = [d \in Procs |-> <<>>]
    /\ cgroups = EmptyMap
    /\ diag = [d \in Procs |-> <<>>]
    /\ hostname = [n \in UtsNamespaces |-> HostHostname]

NextRun ==
    \/ \E d \in Procs : RunEntry(d)
    \/ \E d \in Procs : ContainerRun(d)
    \/ \E d \in Procs : SetupCgroup(d)
    \/ \E d \in Procs : Spawn(d)
    \/ \E d \in Procs : Wait(d)
    \/ \E d \in Procs : CleanupCgroup(d)
    \/ \E d \in Procs : SetupNamespaces(d)
    \/ \E d \in Procs : SetupFilesystem(d)
    \/ \E d \in Procs : MountProc(d)
    \/ \E d \in Procs : ExecTarget(d)
    \/ \E d \in Procs : UnmountProc(d)
    \/ \E d \in Procs : HandleRunErr(d)

SpecRun == InitRun /\ [][NextRun]_vars

(***************************************************************************)
(* Two invocations of gocker run at the same time, each by a driver of its *)
(* own, for an image whose config file both find.  Of the failures only    *)
(* those of the cgroup setup and teardown are followed.                    *)
(***************************************************************************)
InitTwoRuns ==
    /\ fs = EmptyFs
    /\ PullIdle
    /\ ExtractIdle
    /\ HttpIdle
    /\ GinxIdle
    /\ store = [h \in Homes |-> [state |-> "ok", doc |-> MarshalIndent(ZeroConfig)]]
    /\ osArgs = <<"alpine", "sh">>
    /\ procEnv = [d \in Procs |-> IF Depth(d) = 1 THEN <<<<"HOME", "/root">>>> ELSE <<>>]
    /\ rpc = [d \in Procs |-> IF Depth(d) = 1 THEN "run" ELSE "none"]
    /\ cn = [d \in Procs |-> <<>>]
    /\ rerr = [d \in Procs |-> Nil]
    /\ status = [d \in Procs |-> NotExited]
    /\ target = [d \in Procs |-> NoTarget]
    /\ sys = [d \in Procs |-> <<>>]
    /\ cgroups = EmptyMap
    /\ diag = [d \in Procs |-> <<>>]
    /\ hostname = [n \in UtsNamespaces |-> HostHostname]

\* No step of a child phase and no spawn has failed, and a target that has
\* run has exited with 0 or with 3.
ChildrenSucceed ==
    \A d \in Procs :
      /\ rerr[d].type # "error"
      /\ target[d] # NoTarget =>
           target[d].outcome \in {[kind |-> "exited", code |-> k] : k \in {0, 3}}
      /\ \A i \in 1..Len(diag[d]) :
           diag[d][i] \in {"Warning: Failed to move process out of cgroup",
                           "Warning: Failed to remove cgroup directory"}

NextTwoRuns == NextRun /\ ChildrenSucceed'

SpecTwoRuns == InitTwoRuns /\ [][NextTwoRuns]_vars

(***************************************************************************)
(* Client.extractLayer on an arbitrary tar stream: the headers are read    *)
(* one by one into the rootfs that makeRootfs left.                        *)
(***************************************************************************)
NameParts == {<<>>, <<".">>, DotDot, <<"a">>, <<"r">>, <<"r", "r">>}

\* The entry names: up to MaxNameParts parts joined by "/".
Names == {JoinSlash(q) : q \in SeqsUpTo(NameParts, MaxNameParts)}

Linknames == {<<"a">>, DotDot, <<"/">>, <<"r", "r">>, <<".", ".", "/", "r", "r">>}

Bodies == {<<1, 2>>, <<3>>}

Headers ==
    {Header(TypeDir, n, <<>>, <<>>) : n \in Names}
      \cup {Header(TypeChar, n, <<>>, <<>>) : n \in Names}
      \cup {Header(TypeReg, n, <<>>, b) : n \in Names, b \in Bodies}
      \cup {Header(t, n, l, <<>>) : t \in {TypeSymlink, TypeLink}, n \in Names, l \in Linknames}

InitExtract ==
    /\ RunIdle
    /\ HttpIdle
    /\ GinxIdle
    /\ fs = makeRootfs(EmptyFs, "").fs
    /\ PullIdle
    /\ xn = 0
    /\ xerr = ""

\* tr.Next() returns a header and the loop body runs on it.
ExtractHeader ==
    /\ xerr = ""
    /\ xn < MaxEntries
    /\ \E h \in Headers :
         \E r \in {ExtractEntry(fs, imageRoot, h)} :
            /\ fs' = r.fs
            /\ created' = created \cup r.made
            /\ xerr' = r.err
    /\ xn' = xn + 1
    /\ UNCHANGED <<pc, ret, token, manifest, digestSel, layers, taskpc, taskres, errChan,
                   cancelled, closer, dlret, xi, extracted, fs0, config, requests, failures,
                   indexInfo, tagIndex>>
    /\ UNCHANGED <<runVars, httpVars, ginxVars>>

NextExtract == ExtractHeader

SpecExtract == InitExtract /\ [][NextExtract]_vars

(***************************************************************************)
(* pkg/http on its own: a caller of the Client's methods, and a server     *)
(* that may do anything with the request.                                  *)
(***************************************************************************)
StatusCreated == StatusOK + 1
StatusNoContent == StatusOK + 4
StatusInternalServerError == StatusOK + 300

Statuses == {StatusOK, StatusCreated, StatusNoContent, StatusNotFound,
             StatusInternalServerError}

\* The bytes of a response body as json.Decoder reads them: the first JSON
\* value (valid when it decodes into the target, to val), and rest, the
\* bytes after it, which Decode leaves unread: "" for none, "junk" for bytes
\* that are no JSON.
Stream(b, rest) == [ctype |-> b.ctype, valid |-> b.valid, val |-> b.val, rest |-> rest]

StreamsOf(bodies) ==
    {Stream(b, rest) : b \in {x \in bodies : x.valid}, rest \in {"", "junk"}}
      \cup {Stream(b, "") : b \in {x \in bodies : ~x.valid}}
      \cup {Stream(NoBody, "")}

\* The targets a caller decodes into, each with the bodies written for it.
HttpTargets ==
    {[v |-> [Token |-> ""], bodies |-> StreamsOf(TokenBodies)],
     [v |-> ZeroConfig, bodies |-> StreamsOf(ConfigBodies)]}

HttpMethods == {"SendRequest", "SendRequestWithContext", "SendRequestAndDecode"}

HttpRaws(bodies) == {RawNetErr} \cup {Raw(st, b) : st \in Statuses, b \in bodies}

InitHttp ==
    /\ RunIdle
    /\ fs = EmptyFs
    /\ PullIdle
    /\ ExtractIdle
    /\ GinxIdle
    /\ hpc = "idle"
    /\ hraw = <<>>
    /\ hv = <<>>
    /\ hout = <<>>

\* The caller calls a method of the Client; hc.HttpClient.Do(req) runs.
HttpDo ==
    /\ hpc = "idle"
    /\ \E fn \in HttpMethods, t \in HttpTargets :
         \E raw \in HttpRaws(t.bodies) :
            /\ hout' = [fn |-> fn]
            /\ hv' = t.v
            /\ hraw' = raw
    /\ hpc' = "do"
    /\ UNCHANGED <<pullVars, runVars, exVars, ginxVars>>

\* What the method returns: the error, the response (NoBody for nil) and
\* the value v holds afterwards.
HttpResult(fn, v, raw) ==
    IF fn = "SendRequestAndDecode"
    THEN LET r == SendRequestAndDecode(v, raw)
         IN [fn |-> fn, err |-> r.err, resp |-> NoBody, v |-> r.v]
    ELSE LET r == SendRequest(raw)
         IN [fn |-> fn, err |-> r.err, resp |-> r.resp, v |-> v]

\* The method returns.
HttpReturn ==
    /\ hpc = "do"
    /\ hout' = HttpResult(hout.fn, hv, hraw)
    /\ hpc' = "returned"
    /\ UNCHANGED <<pullVars, runVars, exVars, ginxVars, hraw, hv>>

NextHttp ==
    \/ HttpDo
    \/ HttpReturn

SpecHttp == InitHttp /\ [][NextHttp]_vars

(***************************************************************************)
(* ginx (internal/ginx/server): a static file server.  One connection is   *)
(* accepted and handled.                                                   *)
(***************************************************************************)
MaxPathElems == 3

\* The names of the model: index.html is "i", test.html (or a directory
\* test) is "t", etc is "e", passwd is "p"; "wx" is a name that begins like
\* the document root's name "w".
IndexPath == <<"/", "i">>

PathElems == {DotDot, <<"t">>, <<"e">>, <<"p">>, <<"w", "x">>}

\* A request path written with the elements es, with or without the
\* leading "/".
PathOf(rooted, es) == (IF rooted THEN <<"/">> ELSE <<>>) \o JoinSlash(es)

RequestPaths ==
    {PathOf(rooted, es) : rooted \in BOOLEAN, es \in SeqsUpTo(PathElems, MaxPathElems)}
      \cup {PathOf(TRUE, <<<<"t">>, DotDot, DotDot, DotDot, <<"e">>, <<"p">>>>)}

\* What a client may send: a request line of method, path and version, a
\* line of fewer parts, or bytes without the end of a line.
RequestLines ==
    {[eol |-> TRUE, parts |-> <<m, path, "HTTP/1.1">>] :
        m \in {"GET", "POST"}, path \in RequestPaths}
      \cup {[eol |-> TRUE, parts |-> <<"GET">>], [eol |-> FALSE, parts |-> <<"GET">>]}

\* filepath.Abs in a process whose working directory is cwd
Abs(cwd, p) == IF p # <<>> /\ p[1] = "/" THEN Clean(p) ELSE Join(cwd, p)

\* server.NewServer
NewServer(port, wwwRoot, cwd) == [port |-> port, wwwRoot |-> Abs(cwd, wwwRoot)]

\* Server.getCleanAbsPath
getCleanAbsPath(s, path) ==
    LET abs == Abs(Root, Join(s.wwwRoot, Clean(IF path = Root THEN IndexPath ELSE path)))
    IN IF ~HasPrefix(abs, s.wwwRoot)
       THEN [path |-> <<>>, resp |-> "403 Forbidden", err |-> "forbidden path"]
       ELSE [path |-> abs, resp |-> "", err |-> ""]

\* The files of the machine: path -> [kind |-> "dir"]
\*                                 | [kind |-> "file", data |-> d, mode |-> "r" or ""].
DocFile(d) == [kind |-> "file", data |-> d, mode |-> "r"]

DocDir == [kind |-> "dir", data |-> "", mode |-> "r"]

\* A proper ancestor of p is a file.
UnderFile(d, p) ==
    \E q \in DOMAIN d : d[q].kind = "file" /\ q # p /\ HasPrefix(p, q \o <<"/">>)

\* Server.readDataFromFile: err is "" for a nil error.
readDataFromFile(d, path) ==
    IF path \notin DOMAIN d /\ path # Root
    THEN IF UnderFile(d, path)
         THEN [data |-> "", resp |-> "500 Internal Server Error", err |-> "ENOTDIR"]
         ELSE [data |-> "", resp |-> "404 Not Found", err |-> "ENOENT"]
    ELSE IF path # Root /\ d[path].mode # "r"
    THEN [data |-> "", resp |-> "500 Internal Server Error", err |-> "EACCES"]
    ELSE IF path = Root \/ d[path].kind = "dir"
    THEN [data |-> "", resp |-> "403 Forbidden", err |-> ""]
    ELSE [data |-> d[path].data, resp |-> "", err |-> ""]

\* Server.sendSuccessResponse
sendSuccessResponse(data) == [status |-> <<"HTTP/1.1", "200 OK">>, body |-> data]

\* Server.sendErrorResponse
sendErrorResponse(st) == [status |-> <<"HTTP/1.1", st>>, body |-> st]

\* Server.handleConnection from getCleanAbsPath on, for a GET of path
ServeFile(s, d, path) ==
    LET g == getCleanAbsPath(s, path)
    IN IF g.err # "" THEN sendErrorResponse(g.resp)
       ELSE LET r == readDataFromFile(d, g.path)
            IN IF r.err # "" THEN sendErrorResponse(r.resp)
               ELSE sendSuccessResponse(r.data)

\* Server.handleConnection: what it writes to the connection
handleConnection(s, d, req) ==
    IF ~req.eol THEN sendErrorResponse("400 Bad Request")
    ELSE IF Len(req.parts) < 3 THEN sendErrorResponse("400 Bad Request")
    ELSE IF req.parts[1] # "GET" THEN sendErrorResponse("405 Method Not Allowed")
    ELSE ServeFile(s, d, req.parts[2])

\* The www root the server is started with, in the working directory "/".
DocRoots == {<<"/", "w">>, <<"w">>, <<"/", "w", "/">>, <<"/", "e", "/", ".", ".", "/", "w">>}

\* The document root and what lies in and around it.
DocTrees ==
    LET w == <<"/", "w">>
        site == (w :> DocDir) @@ (Child(w, <<"i">>) :> DocFile("index"))
                  @@ (Child(w, <<"t">>) :> DocFile("test"))
        host == (<<"/", "e">> :> DocDir) @@ (<<"/", "e", "/", "p">> :> DocFile("passwd"))
                  @@ (<<"/", "w", "x">> :> DocDir)
                  @@ (<<"/", "w", "x", "/", "p">> :> DocFile("secret"))
    IN {site, site @@ host,
        site @@ host @@ (Child(w, <<"e">>) :> DocDir)
             @@ (Child(Child(w, <<"e">>), <<"p">>) :> [DocFile("page") EXCEPT !.mode = ""])}

InitGinx ==
    /\ RunIdle
    /\ fs = EmptyFs
    /\ PullIdle
    /\ ExtractIdle
    /\ HttpIdle
    /\ \E root \in DocRoots : srv = NewServer(0, root, Root)
    /\ docs \in DocTrees
    /\ conn = <<>>

\* ln.Accept() returns a connection on which a client has sent req.
Accept ==
    /\ conn = <<>>
    /\ \E req \in RequestLines : conn' = [req |-> req, resp |-> <<>>]
    /\ UNCHANGED <<pullVars, runVars, exVars, httpVars, srv, docs>>

\* go s.handleConnection(conn)
HandleConnection ==
    /\ conn # <<>>
    /\ conn.resp = <<>>
    /\ conn' = [conn EXCEPT !.resp = handleConnection(srv, docs, conn.req)]
    /\ UNCHANGED <<pullVars, runVars, exVars, httpVars, srv, docs>>

NextGinx ==
    \/ Accept
    \/ HandleConnection

SpecGinx == InitGinx /\ [][NextGinx]_vars

(***************************************************************************)
(* Properties.                                                             *)
(***************************************************************************)

\* C1: Pull returns an error whenever one of its stages failed (token,
\* manifest, manifest by digest, rootfs reset, layer download or digest
\* check, extraction, config blob): when Pull returns nil, no stage failed.
C1_PullFailsWhenAStageFails == ret = "nil" => failures = {}

\* C2: every entry digest -> bytes of the layer buffer map satisfies
\* "sha256:" + hex(SHA-256(bytes)) = digest, at every point of a pull.
C2_BufferedBytesMatchDigest == \A d \in DOMAIN layers : Digest(layers[d]) = d

\* Bytes that failed the comparison were downloaded for a digest that is in
\* the map (with the bytes of another occurrence).
C2_Witness ==
    \E i \in Tasks : taskres[i] = "digest mismatch" /\ manifest.Layers[i] \in DOMAIN layers

\* C3: if the bytes downloaded for some layer occurrence did not hash to
\* its digest, Pull does not return nil.
C3_MismatchMakesPullFail ==
    ret = "nil" => \A i \in Tasks : taskres[i] # "digest mismatch"

\* C4: every target path at which extraction created a directory, file,
\* symlink or hard link lies under rootfs, element by element.
C4_CreatedUnderRootfs == \A p \in created : IsUnder(p, imageRoot)

\* C5: when the target command exits with code k, the child-phase process
\* exits with k and so does the process that started it.
C5_ExitCodePropagates ==
    \A d \in Procs :
      target[d].outcome.kind = "exited" =>
        /\ status[d] # NotExited => status[d] = target[d].outcome.code
        /\ d > 1 /\ status[d - 1] # NotExited => status[d - 1] = target[d].outcome.code

\* The target exited with a code other than 0 and 1, and both gocker
\* processes have exited.
C5_Witness ==
    \E k \in ExitCodes \ {0, 1} :
      /\ target[2].outcome = [kind |-> "exited", code |-> k]
      /\ status[2] = k
      /\ status[1] = k

\* C6: downloadImage returns nil only if every download task succeeded.
C6_NilOnlyIfAllSucceeded ==
    dlret = ReturnedNil => \A i \in Tasks : taskres[i] = "nil"

\* C7: extractImage reads the layer buffer map only when every download
\* goroutine has terminated.
C7_ExtractionAfterJoin ==
    (pc = "extractImage" \/ extracted # <<>>) => \A i \in Tasks : taskpc[i] = "exited"

\* Extraction has read the map for a manifest of several layers.
C7_Witness ==
    pc = "extractImage" /\ Len(extracted) >= 1 /\ Len(manifest.Layers) >= 2

\* C8: the layers are extracted one at a time in manifest order, each
\* position with the bytes of its digest; once extraction is through, every
\* position has been extracted (a digest listed n times: n times), and the
\* map holds one entry per digest.
C8_ExtractionInManifestOrder ==
    /\ Len(extracted) <= Len(manifest.Layers)
    /\ \A k \in 1..Len(extracted) :
         extracted[k].pos = k /\ Digest(extracted[k].data) = manifest.Layers[k]
    /\ (pc = "fetchConfig" \/ ret = "nil") => Len(extracted) = Len(manifest.Layers)
    /\ DOMAIN layers \subseteq {manifest.Layers[k] : k \in 1..Len(manifest.Layers)}

\* Pull has returned nil for a manifest that lists one digest at several
\* positions: every position has been extracted and the map holds one entry.
C8_Witness ==
    /\ ret = "nil"
    /\ Len(manifest.Layers) >= 2
    /\ Len(extracted) = Len(manifest.Layers)
    /\ Cardinality(DOMAIN layers) = 1

\* C9: if the token request fails, Pull returns an error at once: no other
\* request is issued and the image directory is not touched.
C9_TokenFailureIsFatal ==
    "token" \in failures =>
      /\ pc = "returned"
      /\ ret \notin {"none", "nil"}
      /\ \A r \in requests : r.kind = "token"
      /\ fs = fs0

\* C10: when the manifest response is an index without an entry for the
\* host, Pull returns an error, the file system is as it was, and no
\* request beyond the token and the tag's manifest has been issued.
C10_NoMatchTouchesNothing ==
    indexInfo = "nomatch" =>
      /\ pc = "returned"
      /\ ret \notin {"none", "nil"}
      /\ fs = fs0
      /\ \A r \in requests : r.kind = "token" \/ (r.kind = "manifest" /\ r.ref = "latest")

\* The index had no entry for the host and an earlier image was in place.
C10_Witness == indexInfo = "nomatch" /\ pc = "returned" /\ fs0 = OldFs /\ fs = OldFs

\* The positions of the index received whose platform is the host's.
C11_Matches ==
    {k \in 1..Len(tagIndex) : tagIndex[k].Platform = [OS |-> GOOS, Architecture |-> GOARCH]}

\* C11: when the manifest response is an index, a manifest is fetched by
\* digest only for the first entry of the index whose OS and architecture
\* are the host's; once that fetch has succeeded the manifest of the pull is
\* the one the registry holds under that entry's digest, and every layer
\* requested is a layer of it.
C11_FirstMatchingEntry ==
    /\ \A r \in requests :
         (r.kind = "manifest" /\ r.ref # "latest") =>
           \E k \in C11_Matches :
             (\A j \in C11_Matches : k <= j) /\ r.ref = tagIndex[k].Digest
    /\ (tagIndex # <<>> /\ "manifestByDigest" \notin failures
          /\ pc \notin {"fetchManifest", "fetchManifestByDigest"} /\ digestSel # "") =>
         \E k \in C11_Matches :
           /\ \A j \in C11_Matches : k <= j
           /\ manifest = ManifestAt(tagIndex[k].Digest)
    /\ \A r \in requests :
         (r.kind = "blob" /\ r.ref \in LayerDigests /\ tagIndex # <<>>) =>
           \E k \in C11_Matches :
             /\ \A j \in C11_Matches : k <= j
             /\ \E i \in 1..Len(ManifestAt(tagIndex[k].Digest).Layers) :
                  r.ref = ManifestAt(tagIndex[k].Digest).Layers[i]

\* The index held two entries for the host with different digests, and a
\* layer of the first one's manifest has been requested.
C11_Witness ==
    /\ \E j, k \in C11_Matches : j < k /\ tagIndex[j].Digest # tagIndex[k].Digest
    /\ \E r \in requests : r.kind = "blob" /\ r.ref \in LayerDigests

\* The regular-file entries extraction has written: <<k, i>> is entry i of
\* the k-th extracted layer, and its target path passed the guard.
C12_Entries(k) == Gunzip(extracted[k].data).tr.entries

C12_Target(w) == Join(imageRoot, C12_Entries(w[1])[w[2]].Name)

C12_Writes ==
    UNION {{w \in {<<k, i>> : i \in 1..Len(C12_Entries(k))} :
              /\ C12_Entries(k)[w[2]].Typeflag = TypeReg
              /\ TargetAllowed(C12_Target(w), imageRoot)} : k \in 1..Len(extracted)}

C12_Later(v, w) == v[1] > w[1] \/ (v[1] = w[1] /\ v[2] > w[2])

\* The bytes of the file at path p (<<>> when there is no file).
C12_Content(f, p) ==
    IF Walk(f, p, TRUE).err = "" /\ Walk(f, p, TRUE).exists
       /\ Kind(f, Walk(f, p, TRUE).path) = "file"
    THEN f.data[f.node[Walk(f, p, TRUE).path].ino]
    ELSE <<>>

\* The file that path p names, links followed.
C12_File(f, p) == Walk(f, p, TRUE).path

\* C12: after a pull that returned nil and in which no stage failed, the
\* file at each target path holds exactly the body of the last regular-file
\* entry written there (no later entry having written the same file under
\* this or another name).
C12_LastWriteWins ==
    (ret = "nil" /\ failures = {}) =>
      \A w \in C12_Writes :
        (\A v \in C12_Writes :
           C12_Later(v, w) =>
             /\ C12_Target(v) # C12_Target(w)
             /\ fs.node[C12_File(fs, C12_Target(v))] # fs.node[C12_File(fs, C12_Target(w))]) =>
          C12_Content(fs, C12_Target(w)) = C12_Entries(w[1])[w[2]].Body

\* What files, directories and links the image holds: every path of the
\* rootfs directory and the config file, with the bytes of each file.
C13_Tree(f) ==
    [p \in {q \in DOMAIN f.node : IsUnder(q, imageRoot) \/ q = configPath} |->
       IF f.node[p].kind = "file"
       THEN [kind |-> "file", bytes |-> f.data[f.node[p].ino]]
       ELSE f.node[p]]

\* The layers extracted by this pull, from position k on, extracted onto f.
RECURSIVE C13_ExtractedOnto(_, _)
C13_ExtractedOnto(f, k) ==
    IF k > Len(extracted) THEN f
    ELSE C13_ExtractedOnto(Unpack(f, Gunzip(extracted[k].data), extracted[k].data).fs, k + 1)

\* What one pull of the same layers and config into an empty store leaves.
C13_SinglePull ==
    WriteFile(C13_ExtractedOnto(makeRootfs(EmptyFs, "").fs, 1),
              configPath, MarshalIndent(config)).fs

\* C13: a pull that returned nil and in which no stage failed leaves the
\* same rootfs tree and the same config file as one pull of the same
\* manifest and blobs into an empty store, whatever an earlier pull of the
\* same image name had left.
C13_SameAsSinglePull ==
    (ret = "nil" /\ failures = {}) => C13_Tree(fs) = C13_Tree(C13_SinglePull)

\* C14: every request other than the token request carries the header
\* Authorization: Bearer <token>, where <token> is a token that the token
\* request of this pull returned.
C14_BearerOfThisPull ==
    \A r \in requests :
      r.kind # "token" =>
        /\ "token" \notin failures
        /\ token \in Tokens
        /\ r.auth = Bearer(token)

\* The requests for layer blobs and for the config blob.
C15_LayerRequested == \E r \in requests : r.kind = "blob" /\ r.ref \in LayerDigests

C15_ConfigRequested == \E r \in requests : r.kind = "blob" /\ r.ref \notin LayerDigests

\* C15: the stages of one pull are strictly ordered: a manifest is requested
\* only after the token request has completed; the image directory is reset
\* and layer blobs are requested only after manifest resolution (by tag and,
\* for an index, by digest) has completed; the config blob is requested and
\* the config file written only after every layer has been extracted.
C15_StagesInOrder ==
    /\ (\E r \in requests : r.kind = "manifest") =>
         /\ pc # "authenticate"
         /\ \E r \in requests : r.kind = "token"
    /\ (fs # fs0 \/ C15_LayerRequested) =>
         /\ pc \notin {"authenticate", "fetchManifest", "fetchManifestByDigest"}
         /\ \E r \in requests : r.kind = "manifest" /\ r.ref = "latest"
         /\ digestSel # "" => \E r \in requests : r.kind = "manifest" /\ r.ref = digestSel
    /\ (C15_ConfigRequested \/ (fs # fs0 /\ Exists(fs, configPath))) =>
         /\ pc = "returned"
         /\ Len(extracted) = Len(manifest.Layers)
         /\ \A i \in Tasks : taskpc[i] = "exited"

\* A pull of two layers went through every stage.
C15_Witness ==
    /\ ret = "nil"
    /\ Len(extracted) >= 2
    /\ C15_LayerRequested
    /\ C15_ConfigRequested
    /\ Exists(fs, configPath)

\* downloadImage has been entered for a manifest without layers.
C16_EmptyDownload ==
    /\ manifest.Layers = <<>>
    /\ pc = "select" \/ dlret # NotReturned

\* C16: for a manifest with an empty layer list no download task is
\* launched and no layer is requested; the waiter of downloadImage is never
\* stuck (the closer can close done, and then the select can take it) and
\* downloadImage returns nil; extraction creates nothing; Pull returns nil
\* and leaves an empty rootfs directory and a config file.
C16_EmptyLayerList ==
    C16_EmptyDownload =>
      /\ Tasks = {}
      /\ errChan = <<>>
      /\ ~\E r \in requests : r.kind = "blob" /\ r.ref \in LayerDigests
      /\ (pc = "select" /\ closer = "waiting") => ENABLED CloseDone
      /\ (pc = "select" /\ closer = "closed") => ENABLED SelectDone
      /\ pc = "select" => closer \in {"waiting", "closed"}
      /\ dlret \in {NotReturned, ReturnedNil}
      /\ created = {}
      /\ extracted = <<>>
      /\ Kind(fs, imageRoot) = "dir"
      /\ ~\E q \in DOMAIN fs.node : q # imageRoot /\ IsUnder(q, imageRoot)
      /\ pc = "returned" =>
           /\ ret = "nil"
           /\ Exists(fs, configPath)
           /\ fs.data[fs.node[configPath].ino] = MarshalIndent(config)

\* A pull of a manifest that the registry sent with no layers has returned.
C16_Witness ==
    /\ C16_EmptyDownload
    /\ manifest \in Manifests
    /\ "manifest" \notin failures
    /\ pc = "returned"
    /\ fs0 = PulledFs

\* Step x of process d succeeded / message x was printed by process d.
C17_Did(d, x) == \E i \in 1..Len(sys[d]) : sys[d][i] = x

C17_Printed(d, x) == \E i \in 1..Len(diag[d]) : diag[d][i] = x

\* Process d ran the parent phase and that phase has ended.
C17_ParentEnded(d) ==
    /\ cn[d] # <<>>
    /\ ~IsChildPhase(procEnv[d])
    /\ rpc[d] \in {"handle", "exited"}

\* C17: once the parent phase has ended, with or without an error of
\* spawning or of the child, both steps of the cgroup teardown have been
\* executed (each succeeded or printed its warning), and when the removal
\* succeeded the cgroup directory gocker<pid> does not exist.
C17_TeardownBeforeExit ==
    \A d \in Procs :
      C17_ParentEnded(d) =>
        /\ C17_Did(d, "restore") \/ C17_Printed(d, "Warning: Failed to move process out of cgroup")
        /\ C17_Did(d, "remove") \/ C17_Printed(d, "Warning: Failed to remove cgroup directory")
        /\ C17_Did(d, "remove") => cn[d].cgroupPath \notin DOMAIN cgroups

\* The parent created its cgroup, the child ended with an error status, and
\* the parent removed the cgroup and exited.
C17_Witness ==
    /\ rpc[1] = "exited"
    /\ C17_ParentEnded(1)
    /\ C17_Did(1, "mkdir")
    /\ C17_Did(1, "spawn")
    /\ C17_Did(1, "remove")
    /\ status[1] \notin {0, NotExited}

\* C18: the hostname of the host's UTS namespace is never changed by a run.
C18_HostHostnameUnchanged == hostname[0] = HostHostname

\* C19: the parent spawns the child only after the four cgroup steps have
\* succeeded, and a parent whose cgroup setup failed exits with a status
\* other than zero after printing a diagnostic.
C19_NoSpawnAfterFailedSetup ==
    \A d \in Procs :
      /\ C17_Did(d, "spawn") => \A i \in 1..Len(CgroupSteps) : C17_Did(d, CgroupSteps[i])
      /\ (C17_ParentEnded(d) /\ rpc[d] = "exited" /\ ~C17_Did(d, "cgroup.procs")) =>
           /\ status[d] # 0
           /\ C17_Printed(d, "Error during container excecution")

\* The steps that must have succeeded before the target command is run.
C20_Required == NamespaceSteps \o FilesystemSteps \o ProcSteps

C20_IsRequired(x) == \E i \in 1..Len(C20_Required) : C20_Required[i] = x

\* The child phase of process d has ended and one of its steps had failed.
C20_SetupFailed(d) ==
    /\ cn[d] # <<>>
    /\ IsChildPhase(procEnv[d])
    /\ rpc[d] \in {"handle", "exited"}
    /\ SelectSeq(sys[d], C20_IsRequired) # C20_Required

\* C20: the target command has been run only in a process in which unshare,
\* the private remount, sethostname, chdir to rootfs, chroot, chdir to /,
\* mkdir /proc and mount /proc succeeded, in this order; when one of them
\* failed the target is not run, the process exits with status 1, and so
\* does the parent that spawned it.
C20_TargetAfterSetup ==
    \A d \in Procs :
      /\ target[d] # NoTarget => SelectSeq(sys[d], C20_IsRequired) = C20_Required
      /\ C20_SetupFailed(d) =>
           /\ target[d] = NoTarget
           /\ rerr[d].type = "error"
           /\ rpc[d] = "exited" => status[d] = 1
           /\ (d > 1 /\ rpc[d] = "exited" /\ rpc[d - 1] = "exited") => status[d - 1] = 1

\* The child ran the target after a complete setup, the target exited, and
\* both processes have exited.
C20_Witness ==
    /\ target[2] # NoTarget
    /\ target[2].outcome.kind = "exited"
    /\ rpc[2] = "exited"
    /\ rpc[1] = "exited"

\* The chdir to the working directory failed in process d, which has since
\* come to the end of the child phase.
C21_ChdirFailed(d) ==
    /\ C17_Printed(d, "WARNING: failed to chdir to working dir")
    /\ rpc[d] \in {"unmountProc", "handle", "exited"}
    /\ SelectSeq(sys[d], C20_IsRequired) = C20_Required

\* C21: when only the chdir to the working directory failed, the target
\* command is still run, in the directory /, and the process exits with the
\* target's exit code.
C21_WarnAndContinue ==
    \A d \in Procs :
      C21_ChdirFailed(d) =>
        /\ target[d] # NoTarget
        /\ target[d].outcome.kind # "startfail"
        /\ target[d].dir = "/"
        /\ (rpc[d] = "exited" /\ target[d].outcome.kind = "exited") =>
             status[d] = target[d].outcome.code

\* The config file process d finds under its HOME.
C22_ConfigFile(d) ==
    IF Getenv(procEnv[d], "HOME") \in Homes THEN store[Getenv(procEnv[d], "HOME")]
    ELSE MissingFile

\* Process d has built, or failed to build, its container from a config
\* file that cannot be opened or parsed.
C22_ConfigUnavailable(d) ==
    /\ rpc[d] \notin {"none", "run"}
    /\ Len(osArgs) >= 2
    /\ C22_ConfigFile(d).state # "ok"

\* C22: a gocker process that cannot open or parse the config file exits
\* with status 1 after printing the creation diagnostic, builds no
\* container, creates no cgroup directory and spawns no process; when it is
\* the child the parent exits with status 1 too.
C22_ConfigFailureIsFatal ==
    \A d \in Procs :
      C22_ConfigUnavailable(d) =>
        /\ rpc[d] = "exited"
        /\ status[d] = 1
        /\ C17_Printed(d, "Error during container creation")
        /\ cn[d] = <<>>
        /\ sys[d] = <<>>
        /\ <<"gocker", Getpid(d)>> \notin DOMAIN cgroups
        /\ d < MaxDepth => rpc[d + 1] = "none"
        /\ (d > 1 /\ rpc[d - 1] = "exited") => status[d - 1] = 1

\* The parent read its config file, the child found none under its HOME,
\* and both have exited.
C22_Witness ==
    /\ C22_ConfigUnavailable(2)
    /\ C22_ConfigFile(1).state = "ok"
    /\ rpc[1] = "exited"
    /\ status[1] = 1

\* Where a process is while it runs the parent phase or the child phase.
C23_ParentPcs == {"setupCgroup", "spawn", "wait", "cleanupCgroup"}

C23_ChildPcs == {"setupNamespaces", "setupFilesystem", "mountProc", "exec", "unmountProc"}

\* C23: a process runs the child phase if and only if IS_CHILD=1 is in its
\* environment; the process a parent starts always has IS_CHILD=1, whatever
\* the image's Env holds, so it never runs the parent phase (no cgroup
\* step, no spawn) and no process is started at depth two.
C23_PhaseByMarker ==
    \A d \in Procs :
      /\ rpc[d] \in C23_ChildPcs => Getenv(procEnv[d], "IS_CHILD") = "1"
      /\ rpc[d] \in C23_ParentPcs => Getenv(procEnv[d], "IS_CHILD") # "1"
      /\ (d > 1 /\ rpc[d] # "none") =>
           /\ Getenv(procEnv[d], "IS_CHILD") = "1"
           /\ rpc[d] \notin C23_ParentPcs
           /\ \A i \in 1..Len(sys[d]) :
                sys[d][i] \notin {"mkdir", "memory.max", "cpu.max", "cgroup.procs", "spawn",
                                  "restore", "remove"}
      /\ d > 2 => rpc[d] = "none"

\* The image's Env holds IS_CHILD=0, and the process the parent started has
\* run the target as a child.
C23_Witness ==
    /\ rpc[2] = "exited"
    /\ target[2] # NoTarget
    /\ \E i \in 1..Len(cn[1].env) : cn[1].env[i] = <<"IS_CHILD", "0">>

\* C24: the environment of the target command is the four base entries
\* followed by the entries of the Env of the image config the process
\* loaded, in their order, none dropped.
C24_TargetEnvIsBaseThenImage ==
    \A d \in Procs :
      target[d] # NoTarget =>
        target[d].env = setMinEnv \o DecodeConfig(C22_ConfigFile(d).doc).Config.Env

\* The config object process d decodes from its config file.
C25_Config(d) == DecodeConfig(C22_ConfigFile(d).doc).Config

C26_At(d, x) ==
    IF C17_Did(d, x) THEN CHOOSE i \in 1..Len(sys[d]) : sys[d][i] = x ELSE 0

\* C26: the teardown is best effort: the removal of the cgroup directory is
\* attempted also when the restore write failed, the restore write comes
\* first, each failure is printed as a warning, and the parent still exits
\* with the exit status of the child.
C26_TeardownBestEffort ==
    \A d \in Procs :
      (C17_ParentEnded(d) /\ rpc[d] = "exited") =>
        /\ ~C17_Did(d, "restore") =>
             /\ C17_Printed(d, "Warning: Failed to move process out of cgroup")
             /\ C17_Did(d, "remove") \/ C17_Printed(d, "Warning: Failed to remove cgroup directory")
        /\ ~C17_Did(d, "remove") => C17_Printed(d, "Warning: Failed to remove cgroup directory")
        /\ (C17_Did(d, "restore") /\ C17_Did(d, "remove")) =>
             C26_At(d, "restore") < C26_At(d, "remove")
        /\ C17_Did(d, "spawn") => status[d] = status[d + 1]

\* Both teardown steps failed and the parent exited with the status 0 of
\* the child.
C26_Witness ==
    /\ rpc[1] = "exited"
    /\ C17_Did(1, "spawn")
    /\ C17_Printed(1, "Warning: Failed to move process out of cgroup")
    /\ C17_Printed(1, "Warning: Failed to remove cgroup directory")
    /\ status[2] = 0
    /\ status[1] = 0

\* The processes that run the parent phase and have built their container.
C27_Parents == {d \in Procs : cn[d] # <<>> /\ ~IsChildPhase(procEnv[d])}

\* The cgroup directories other than that of process d are the same before
\* and after the step.
C27_OthersUntouched(d) ==
    \A q \in (DOMAIN cgroups \cup DOMAIN cgroups') \ {cn[d].cgroupPath} :
      /\ q \in DOMAIN cgroups
      /\ q \in DOMAIN cgroups'
      /\ cgroups'[q] = cgroups[q]

C27_DistinctDirs ==
    \A d, e \in C27_Parents : d # e => cn[d].cgroupPath # cn[e].cgroupPath

C27_OwnDirOnly ==
    \A d \in Procs :
      (cn[d] # <<>> /\ rpc'[d] # rpc[d]) =>
        IF IsChildPhase(procEnv[d]) THEN cgroups' = cgroups ELSE C27_OthersUntouched(d)

\* C27: two parents running at the same time have distinct cgroup
\* directories, a step of a parent changes no cgroup directory but its own,
\* and a step of a child-phase process changes no cgroup directory at all.
C27_CgroupOwnedByParent == [](C27_DistinctDirs) /\ [][C27_OwnDirOnly]_vars

\* Both parents have created their cgroup directories, and the first has
\* removed its own while the second still waits for its child.
C27_Witness ==
    /\ rpc[MaxDepth + 1] = "wait"
    /\ C17_Did(MaxDepth + 1, "cgroup.procs")
    /\ cn[MaxDepth + 1].cgroupPath \in DOMAIN cgroups
    /\ C17_Did(1, "cgroup.procs")
    /\ C17_Did(1, "remove")
    /\ cn[1].cgroupPath \notin DOMAIN cgroups

\* The caller's request failed in transport or was answered with a status
\* other than 200.
C28_NotOK == hraw.neterr \/ hraw.status # StatusOK

\* The body is one JSON value that decodes into the target, and nothing else.
C28_ValidJSONForTarget == hraw.body.valid /\ hraw.body.rest = ""

\* C28: SendRequest and SendRequestWithContext return a response only when
\* the status is 200, and an error and no response on a transport failure or
\* any other status; SendRequestAndDecode returns an error in those cases,
\* and also when the body of the 200 response is not valid JSON for the
\* target type.
C28_ErrorUnlessOKAndDecodable ==
    hpc = "returned" =>
       IF hout.fn = "SendRequestAndDecode"
       THEN (C28_NotOK \/ ~C28_ValidJSONForTarget) => hout.err # ""
       ELSE /\ hout.resp # NoBody => ~C28_NotOK
            /\ C28_NotOK => (hout.err # "" /\ hout.resp = NoBody)

\* What os.Open and the decoder of fromConfigFile find at the config path of
\* a runner that has the puller's HOME and image name.
C29_Persisted ==
    LET w == Walk(fs, configPath, TRUE)
    IN IF w.err # "" \/ ~w.exists THEN MissingFile
       ELSE IF Kind(fs, w.path) # "file" THEN [state |-> "invalid", doc |-> {}]
       ELSE [state |-> "ok", doc |-> fs.data[fs.node[w.path].ino]]

\* The Container of NewContainer before fromConfigFile.
C29_Container ==
    [imgName |-> "alpine", home |-> "/root", cgroupPath |-> <<"gocker", Getpid(1)>>,
     cmd |-> "sh", args |-> <<>>, env |-> setMinEnv, workingDir |-> "", hostname |-> ""]

\* Pull returned nil and its request for the config blob was answered with
\* a config, which Client.config then holds.
C29_Fetched == ret = "nil" /\ "config" \notin failures

C29_Loads(r) ==
    /\ r.err = Nil
    /\ r.c.env = setMinEnv \o config.Config.Env
    /\ r.c.workingDir = IF config.Config.WorkingDir = "" THEN "/"
                        ELSE config.Config.WorkingDir
    /\ r.c.hostname = IF config.Config.Hostname = "" THEN ContainerSuffix("alpine")
                      ELSE config.Config.Hostname

\* C29: after a successful Pull that fetched a config blob, the persisted
\* .config.json decodes to the Env, WorkingDir and Hostname of the blob's
\* config object, and a later gocker run loads them from it: the Env list
\* after its own base environment, and "/" and <image>-container in place
\* of an empty WorkingDir and Hostname.
C29_ConfigRoundTrip ==
    C29_Fetched =>
       /\ C29_Persisted.state = "ok"
       /\ DecodeConfig(C29_Persisted.doc).Config = config.Config
       /\ C29_Loads(fromConfigFile(C29_Container, C29_Persisted))

C29_Witness ==
    /\ C29_Fetched
    /\ config.Config.Env # <<>>
    /\ config.Config.WorkingDir = ""
    /\ fromConfigFile(C29_Container, C29_Persisted).c.workingDir = "/"

\* The ".." elements of the elements es lead above the directory the walk
\* started in, depth elements below which it stands.
RECURSIVE C30_Climbs(_, _)
C30_Climbs(es, depth) ==
    IF es = <<>> THEN FALSE
    ELSE IF es[1] = <<>> \/ es[1] = <<".">> THEN C30_Climbs(Tail(es), depth)
    ELSE IF es[1] = DotDot
         THEN depth = 0 \/ C30_Climbs(Tail(es), depth - 1)
         ELSE C30_Climbs(Tail(es), depth + 1)

\* The request is a GET whose path attempts directory traversal.
C30_Traversal ==
    /\ conn # <<>>
    /\ conn.req.eol
    /\ Len(conn.req.parts) >= 3
    /\ conn.req.parts[1] = "GET"
    /\ C30_Climbs(Components(conn.req.parts[2]), 0)

\* C30: for a GET whose path attempts directory traversal, such as
\* /../etc/passwd or /test/../../../etc/passwd, the path check returns an
\* error with status "403 Forbidden" and the server answers with a
\* 403 Forbidden status line.
C30_TraversalForbidden ==
    C30_Traversal =>
       /\ getCleanAbsPath(srv, conn.req.parts[2]).err # ""
       /\ getCleanAbsPath(srv, conn.req.parts[2]).resp = "403 Forbidden"
       /\ conn.resp # <<>> => conn.resp.status = <<"HTTP/1.1", "403 Forbidden">>

\* Where the request path leads from the www root.
C31_Resolved == Abs(Root, Join(srv.wwwRoot, IF conn.req.parts[2] = Root THEN IndexPath
                                             ELSE conn.req.parts[2]))

\* The status and body the precedence of the checks selects for the request
\* line of the connection.
C31_Selected ==
    IF Len(conn.req.parts) < 3 THEN <<"400 Bad Request", "400 Bad Request">>
    ELSE IF conn.req.parts[1] # "GET"
    THEN <<"405 Method Not Allowed", "405 Method Not Allowed">>
    ELSE IF ~IsUnder(C31_Resolved, srv.wwwRoot) THEN <<"403 Forbidden", "403 Forbidden">>
    ELSE IF C31_Resolved \notin DOMAIN docs THEN <<"404 Not Found", "404 Not Found">>
    ELSE IF docs[C31_Resolved].kind = "dir" THEN <<"403 Forbidden", "403 Forbidden">>
    ELSE <<"200 OK", docs[C31_Resolved].data>>

\* C31: handleConnection answers each request line with the status its
\* checks select, in this precedence: fewer than three parts, 400 Bad
\* Request; a method other than GET, 405 Method Not Allowed; a path outside
\* the www root, 403 Forbidden; a missing file, 404 Not Found; a directory,
\* 403 Forbidden; otherwise 200 OK with the content of the file.
C31_StatusByPrecedence ==
    (conn # <<>> /\ conn.req.eol /\ conn.resp # <<>>) =>
       /\ conn.resp.status = <<"HTTP/1.1", C31_Selected[1]>>
       /\ conn.resp.body = C31_Selected[2]

\* A step of task i from the publication of its error: with the error slot
\* free the error is placed there and cancel() is next; cancel() cancels the
\* shared context.
C32_PublishStep(i) ==
    /\ (taskpc[i] = "publish" /\ taskpc'[i] # "publish" /\ errChan = <<>>) =>
          (errChan' = <<[task |-> i, err |-> taskres[i]]>> /\ taskpc'[i] = "cancel")
    /\ (taskpc[i] = "cancel" /\ taskpc'[i] # "cancel") => cancelled'

C33_Skipped(f, h) ==
    \/ ~IsUnder(Join(imageRoot, h.Name), imageRoot)
    \/ /\ h.Typeflag \in {TypeSymlink, TypeLink}
       /\ Walk(f, Join(imageRoot, h.Name), FALSE).err = ""
       /\ Walk(f, Join(imageRoot, h.Name), FALSE).exists
    \/ h.Typeflag \notin {TypeDir, TypeReg, TypeSymlink, TypeLink}

\* C33: an entry that extraction skips or ignores (a path-traversal entry,
\* a symlink or hard link whose target path already exists, an entry of an
\* unsupported type) never aborts the pull: wherever extractLayer stands,
\* the iteration on such an entry returns no error, so the loop goes on
\* with the remaining entries and layers.
C33_SkippedNeverAborts ==
    xerr = "" =>
       \A h \in Headers : C33_Skipped(fs, h) => ExtractEntry(fs, imageRoot, h).err = ""

\* The iteration of extractLayer on the hard-link entry h creates the link.
C34_Links(f, h) ==
    h.Typeflag = TypeLink /\ ExtractEntry(f, imageRoot, h).err = ""
      /\ ExtractEntry(f, imageRoot, h).made # {}

\* C34: for a hard-link entry the existing file that gets linked is resolved
\* under rootfs: wherever extractLayer stands, for every Linkname (also with
\* ".." elements) the link source of a link that is created lies under
\* rootfs element by element, so no file outside rootfs is linked into the
\* image.
C34_LinkSourceUnderRootfs ==
    xerr = "" =>
       \A h \in Headers :
          C34_Links(fs, h) => IsUnder(Join(imageRoot, h.Linkname), imageRoot)

\* The download or the digest check of some layer has failed.
C35_LayerFailed == \E i \in Tasks : taskres[i] \notin {"", "nil"}

\* C35: if the download or the digest check of any layer fails during a
\* pull, extraction is never started: no tar entry of any layer (also not
\* of a verified layer that precedes the failed one) is written under
\* rootfs, in every interleaving of the download tasks and the waiter.
C35_NoExtractionAfterFailure ==
    C35_LayerFailed => (extracted = <<>> /\ created = {})

\* downloadImage returned an error.
C36_ReturnedError == dlret # NotReturned /\ dlret # ReturnedNil

\* C36: the error downloadImage returns is the failure of some layer of
\* its own (transport or HTTP error, read error, digest mismatch), never an
\* error a task produced because the shared context had been cancelled; and
\* while the waiter has not returned, the context is cancelled only with an
\* error in the error slot.
C36_RootCauseReturned ==
    /\ C36_ReturnedError =>
          /\ ~IsCancelErr(dlret.err)
          /\ dlret.task \in Tasks
          /\ taskres[dlret.task] = dlret.err
    /\ (cancelled /\ dlret = NotReturned) => errChan # <<>>

\* The waiter returned the failure of one task, and the error of a task
\* that was cancelled lies in the error slot.
C36_Witness ==
    /\ C36_ReturnedError
    /\ errChan # <<>>
    /\ IsCancelErr(Head(errChan).err)

\* C37: gocker run with an image name and no command is handled as a setup
\* error: the process reports a diagnostic and exits 1, without a cgroup
\* and without a child, and does not fail on an access to the argument list
\* that is out of range.
C37_MissingCommandIsSetupError ==
    (Len(osArgs) = 1 /\ rpc[1] = "exited") =>
       /\ status[1] = 1
       /\ diag[1] # <<>>
       /\ sys[1] = <<>>
       /\ cgroups = EmptyMap
       /\ rpc[2] = "none"

\* The connection was answered 200 OK with the content of a file.
C38_Served200 ==
    /\ conn # <<>>
    /\ conn.resp # <<>>
    /\ conn.resp.status = <<"HTTP/1.1", "200 OK">>
    /\ getCleanAbsPath(srv, conn.req.parts[2]).path \in DOMAIN docs
    /\ docs[getCleanAbsPath(srv, conn.req.parts[2]).path].kind = "file"

\* C38: ginx: for every request line, a file whose content is returned in
\* a 200 response is a component-wise descendant of the server's www root,
\* also for request paths that do not start with "/" and contain "..", and
\* every accepted connection receives exactly one response, success or
\* error, before it is closed: handling writes one response, and a
\* connection that has its response gets no other.
C38_ServedUnderRootOnce ==
    /\ [](C38_Served200 =>
            IsUnder(getCleanAbsPath(srv, conn.req.parts[2]).path, srv.wwwRoot))
    /\ [][/\ (conn # <<>> /\ conn.resp = <<>>) => (conn' # <<>> /\ conn'.resp # <<>>)
          /\ (conn # <<>> /\ conn.resp # <<>>) => conn' = conn]_vars

====
